---- MODULE Spec2Model ----
(***************************************************************************)
(* Model of the experimental-design pipeline of proof_of_concept/:         *)
(*   generate_experimental_design.py  (design generator)                   *)
(*   fix_schedule_csv.py              (schedule repair)                    *)
(*   recompute_qphh.py                (metrics recomputation driver)       *)
(*   export_clean_results.py          (export driver)                      *)
(* and of the query executors of proof_of_concept/src/:                    *)
(*   async_methods/*.py, database/connection.py, benchmark/runner.py       *)
(*                                                                         *)
(* Text values are sequences of one-character strings, so that strip(),    *)
(* upper(), float() and the "%.2f" formatting are computed, not assumed.   *)
(* Python's None is the one-element sequence NONE.                         *)
(***************************************************************************)
EXTENDS Integers, Sequences, FiniteSets, TLC

VARIABLES
    \* ---- fix_schedule_csv.repair_rows on an in-memory list of rows
    rows,            \* the list of row dicts handed to repair_rows
    rows0,           \* the list as it was before the first call
    passes,          \* one record per finished call: rows after it and its counts
    rpc,             \* position inside repair_rows
    ri,              \* index of the row the loop is at (1-based)
    realigned,       \* repair_rows' counter
    hours_backfilled,\* repair_rows' counter
    \* ---- generate_experimental_design.main
    argv,            \* the command line the process is started with
    args,            \* the parsed command line (args.seed is filled in by main)
    gpc,             \* position of main()
    rng,             \* state of numpy's global generator
    treatments,      \* generate_treatment_combinations' DataFrame
    schedule,        \* the schedule DataFrame
    draws,           \* log of the random draws, in call order
    out,             \* files written: schedule CSV and summary text
    exitCode,        \* process exit status, -1 while running
    run,             \* number of the generator process (1, 2, ...)
    prevOut,         \* schedule CSV written by the previous process
    \* ---- fix_schedule_csv.main and recompute_qphh.recompute on one directory
    fs,              \* files: the schedule CSV, its .bak and .tmp siblings, the results directory
    proc,            \* the running process: tool, flags, position, locals
    started,         \* fs as it was when the running process started
    nprocs,          \* processes started so far
    firstBackup,     \* what the first backup-making repair run copied to .bak
    \* ---- the two batch drivers on one schedule row and one run's result files
    job,             \* the schedule row, the run's three result files, the export flag
    jpc,             \* which of the calls on the job have been made
    result,          \* what each call returned
    \* ---- the query executors and the connection manager they share
    executor,        \* the executor under test, how it is driven, its queries, the pool size
    sync_pool,       \* DatabaseConnection.sync_pool: 0 for None, else the pool's number
    async_pool,      \* DatabaseConnection.async_pool: 0 for None, else the pool's number
    pools,           \* per pool created so far, the connections checked out of it
    calls,           \* one execute_query call per query: position and locals
    batch            \* the batch call: position, loop index, list of times

repairVars == <<rows, rows0, passes, rpc, ri, realigned, hours_backfilled>>
designVars == <<argv, args, gpc, rng, treatments, schedule, draws, out, exitCode, run, prevOut>>
toolVars == <<fs, proc, started, nprocs, firstBackup>>
driverVars == <<job, jpc, result>>
execVars == <<executor, sync_pool, async_pool, pools, calls, batch>>
vars == <<repairVars, designVars, toolVars, driverVars, execVars>>

-----------------------------------------------------------------------------
(* Text *)

\* Op applied to the value of v, which is worked out once
With(v, Op(_)) == CHOOSE r \in {Op(x) : x \in {v}} : TRUE

NONE == <<"<None>">>
EMPTY == <<>>

LowerChars == <<"a","b","c","d","e","f","g","h","i","j","k","l","m",
                "n","o","p","q","r","s","t","u","v","w","x","y","z">>
UpperChars == <<"A","B","C","D","E","F","G","H","I","J","K","L","M",
                "N","O","P","Q","R","S","T","U","V","W","X","Y","Z">>
DigitChars == <<"0","1","2","3","4","5","6","7","8","9">>
Whitespace == {" ", "\t"}

\* str.upper() on one character
UpperChar(c) ==
    IF \E i \in 1..Len(LowerChars) : LowerChars[i] = c
    THEN UpperChars[CHOOSE i \in 1..Len(LowerChars) : LowerChars[i] = c]
    ELSE c

\* str.upper()
StrUpper(s) == [i \in 1..Len(s) |-> UpperChar(s[i])]

\* str.strip()
StrStrip(s) ==
    LET keep == {i \in 1..Len(s) : s[i] \notin Whitespace}
    IN  IF keep = {} THEN EMPTY
        ELSE LET lo == CHOOSE i \in keep : \A j \in keep : i <= j
                 hi == CHOOSE i \in keep : \A j \in keep : j <= i
             IN  SubSeq(s, lo, hi)

\* Python truthiness of an optional string
Truthy(v) == v # NONE /\ v # EMPTY

\* `v or w`
PyOr(v, w) == IF Truthy(v) THEN v ELSE w

IsDigit(c) == \E i \in 1..10 : DigitChars[i] = c
DigitVal(c) == (CHOOSE i \in 1..10 : DigitChars[i] = c) - 1

RECURSIVE DigitsVal(_)
DigitsVal(s) ==
    IF s = EMPTY THEN 0
    ELSE 10 * DigitsVal(SubSeq(s, 1, Len(s) - 1)) + DigitVal(s[Len(s)])

RECURSIVE Pow10(_)
Pow10(k) == IF k = 0 THEN 1 ELSE 10 * Pow10(k - 1)

RECURSIVE IntToStr(_)
IntToStr(n) ==
    IF n < 10 THEN <<DigitChars[n + 1]>>
    ELSE IntToStr(n \div 10) \o <<DigitChars[(n % 10) + 1]>>

Str_inf == <<"I","N","F">>
Str_infinity == <<"I","N","F","I","N","I","T","Y">>
Str_nan == <<"N","A","N">>

NotANumber == [kind |-> "bad", neg |-> FALSE, num |-> 0, den |-> 1]

\* float(text): surrounding whitespace, an optional sign, then "inf",
\* "infinity" or "nan" in any case, or a decimal literal "ddd", "ddd.ddd",
\* ".ddd", "ddd." (no exponent, no underscores).  kind is "num" with the
\* exact value (-1)^neg * num/den, "inf", "nan", or "bad" for a ValueError.
ParseFloat(text) ==
    With(StrStrip(text), LAMBDA t :
    With(IF t # EMPTY /\ t[1] \in {"-", "+"} THEN SubSeq(t, 2, Len(t)) ELSE t, LAMBDA s :
    LET neg == t # EMPTY /\ t[1] = "-"
        dots == {i \in 1..Len(s) : s[i] = "."}
        dot == IF dots = {} THEN Len(s) + 1 ELSE CHOOSE i \in dots : TRUE
        ip == SubSeq(s, 1, dot - 1)
        fp == SubSeq(s, dot + 1, Len(s))
    IN  IF StrUpper(s) \in {Str_inf, Str_infinity}
        THEN [kind |-> "inf", neg |-> neg, num |-> 0, den |-> 1]
        ELSE IF StrUpper(s) = Str_nan
        THEN [kind |-> "nan", neg |-> neg, num |-> 0, den |-> 1]
        ELSE IF /\ Cardinality(dots) <= 1
                /\ \A i \in 1..Len(s) : IsDigit(s[i]) \/ s[i] = "."
                /\ Len(ip) + Len(fp) >= 1
        THEN [kind |-> "num", neg |-> neg,
              num |-> DigitsVal(ip) * Pow10(Len(fp)) + DigitsVal(fp),
              den |-> Pow10(Len(fp))]
        ELSE NotANumber))

\* x / k for a float x and a positive integer k
DivBy(x, k) == IF x.kind = "num" THEN [x EXCEPT !.den = x.den * k] ELSE x

\* round-half-even of the non-negative fraction n/d
RoundHalfEven(n, d) ==
    LET q == n \div d
        r == n % d
    IN  IF 2 * r < d THEN q
        ELSE IF 2 * r > d THEN q + 1
        ELSE IF q % 2 = 0 THEN q ELSE q + 1

\* f"{x:.2f}" for the non-negative fraction n/d
FormatFixed2(n, d) ==
    LET cents == RoundHalfEven(100 * n, d)
        frac == cents % 100
    IN  IntToStr(cents \div 100) \o <<".">>
            \o <<DigitChars[(frac \div 10) + 1], DigitChars[(frac % 10) + 1]>>

\* f"{x:.2f}" for a parsed float
FormatFloat2(x) ==
    (IF x.neg THEN <<"-">> ELSE EMPTY)
        \o (IF x.kind = "inf" THEN <<"i","n","f">>
            ELSE IF x.kind = "nan" THEN <<"n","a","n">>
            ELSE FormatFixed2(x.num, x.den))

-----------------------------------------------------------------------------
(* fix_schedule_csv.py *)

S_COMPLETED == <<"C","O","M","P","L","E","T","E","D">>
S_FAILED == <<"F","A","I","L","E","D">>
S_PENDING == <<"P","E","N","D","I","N","G">>

STATUS_VALUES == {S_COMPLETED, S_FAILED, S_PENDING}

\* parse_minutes: the float, or None (kind "bad") for None, "" and
\* unparseable text
parse_minutes(value) ==
    IF value \notin {NONE, EMPTY} THEN ParseFloat(value) ELSE NotANumber

\* realign_row's guards without the first one (status already a status value)
realign_applies_no_status_guard(row) ==
    StrUpper(StrStrip(PyOr(row.cumulative_time_hours, EMPTY))) \in STATUS_VALUES

\* the two guards of realign_row: TRUE when the row is rewritten
realign_applies(row) ==
    /\ StrUpper(StrStrip(PyOr(row.status, EMPTY))) \notin STATUS_VALUES
    /\ StrUpper(StrStrip(PyOr(row.cumulative_time_hours, EMPTY))) \in STATUS_VALUES

\* realign_row, variant that drops the fallback to the trailing value
realign_row_no_fallback(row) ==
    IF ~realign_applies(row) THEN row
    ELSE [row EXCEPT
            !.cumulative_time_hours = EMPTY,
            !.status = StrStrip(PyOr(row.cumulative_time_hours, EMPTY)),
            !.actual_runtime_sec = row.status,
            !.execution_timestamp = row.actual_runtime_sec,
            !.qphh_result = row.execution_timestamp,
            !.power_result = row.qphh_result,
            !.throughput_result = row.power_result]

\* realign_row: the row after the call
realign_row(row) ==
    IF ~realign_applies(row) THEN row
    ELSE [row EXCEPT
            !.cumulative_time_hours = EMPTY,
            !.status = StrStrip(PyOr(row.cumulative_time_hours, EMPTY)),
            !.actual_runtime_sec = row.status,
            !.execution_timestamp = row.actual_runtime_sec,
            !.qphh_result = row.execution_timestamp,
            !.power_result = row.qphh_result,
            !.throughput_result = PyOr(row.power_result, row.throughput_result)]

\* fill_hours' guards without the first one (hours already present)
fill_applies_ignores_existing(row) ==
    parse_minutes(row.cumulative_time_min).kind # "bad"

\* the two guards of fill_hours: TRUE when the row is rewritten
fill_applies(row) ==
    /\ ~Truthy(row.cumulative_time_hours)
    /\ parse_minutes(row.cumulative_time_min).kind # "bad"

\* fill_hours, variant that writes the minutes without dividing by 60
fill_hours_undivided(row) ==
    IF ~fill_applies(row) THEN row
    ELSE LET minutes == parse_minutes(row.cumulative_time_min)
         IN  [row EXCEPT !.cumulative_time_hours = FormatFloat2(minutes)]

\* fill_hours: the row after the call
fill_hours(row) ==
    IF ~fill_applies(row) THEN row
    ELSE LET minutes == parse_minutes(row.cumulative_time_min)
         IN  [row EXCEPT !.cumulative_time_hours = FormatFloat2(DivBy(minutes, 60))]

\* repair_rows: the rows after the loop and the two counters it returns
repair_rows(rs) ==
    LET aligned == [i \in 1..Len(rs) |-> realign_row(rs[i])]
    IN  [rows |-> [i \in 1..Len(rs) |-> fill_hours(aligned[i])],
         realigned |-> Cardinality({i \in 1..Len(rs) : realign_applies(rs[i])}),
         hours_backfilled |-> Cardinality({i \in 1..Len(rs) : fill_applies(aligned[i])})]

-----------------------------------------------------------------------------
(* generate_experimental_design.py *)
(* Database sizes are integers in thousandths of a GB (10 is 0.01 GB,      *)
(* 2500 is 2.5 GB); the model's sizes stay below 10^6 GB, where "%g" uses  *)
(* no exponent.                                                            *)

Str_GB == <<"G","B">>
Str_MB == <<"M","B">>

\* the digits of n, left-padded with zeros to width w
RECURSIVE ZeroPad(_, _)
ZeroPad(s, w) == IF Len(s) >= w THEN s ELSE ZeroPad(<<"0">> \o s, w)

\* s without its trailing zeros
RECURSIVE StripZeros(_)
StripZeros(s) ==
    IF s # EMPTY /\ s[Len(s)] = "0" THEN StripZeros(SubSeq(s, 1, Len(s) - 1)) ELSE s

\* format_numeric: f"{value:g}" of milli/1000
format_numeric(milli) ==
    LET frac == StripZeros(ZeroPad(IntToStr(milli % 1000), 3))
    IN  IntToStr(milli \div 1000) \o (IF frac = EMPTY THEN EMPTY ELSE <<".">> \o frac)

\* format_db_label
format_db_label(db_size_gb) ==
    IF db_size_gb >= 1000
    THEN format_numeric(db_size_gb) \o Str_GB
    ELSE format_numeric(db_size_gb * 1000) \o Str_MB

\* str.lower() on one character
LowerChar(c) ==
    IF \E i \in 1..Len(UpperChars) : UpperChars[i] = c
    THEN LowerChars[CHOOSE i \in 1..Len(UpperChars) : UpperChars[i] = c]
    ELSE c

\* sanitize_db_name
sanitize_db_name(db_label) ==
    <<"t","p","c","h","_","d","b","_">> \o [i \in 1..Len(db_label) |-> LowerChar(db_label[i])]

\* the rows appended for one (db_size, io_method) cell, variant whose
\* replicate loop stops one short: range(1, replicates)
cell_rows_short(db_size, io_method, replicates) ==
    [rep \in 1..(replicates - 1) |->
        [db_size_gb |-> db_size,
         db_name |-> sanitize_db_name(format_db_label(db_size)),
         io_method |-> io_method,
         replicate |-> rep,
         treatment_id |-> <<format_db_label(db_size), "_", io_method>>]]

\* the rows appended for one (db_size, io_method) cell: rep in range(1, replicates + 1)
cell_rows(db_size, io_method, replicates) ==
    [rep \in 1..replicates |->
        [db_size_gb |-> db_size,
         db_name |-> sanitize_db_name(format_db_label(db_size)),
         io_method |-> io_method,
         replicate |-> rep,
         treatment_id |-> <<format_db_label(db_size), "_", io_method>>]]

RECURSIVE method_rows(_, _, _)
method_rows(db_size, io_methods, replicates) ==
    IF io_methods = <<>> THEN <<>>
    ELSE cell_rows(db_size, Head(io_methods), replicates)
            \o method_rows(db_size, Tail(io_methods), replicates)

\* generate_treatment_combinations: sizes outermost, then methods, then replicates
RECURSIVE generate_treatment_combinations(_, _, _)
generate_treatment_combinations(io_methods, db_sizes, replicates) ==
    IF db_sizes = <<>> THEN <<>>
    ELSE method_rows(Head(db_sizes), io_methods, replicates)
            \o generate_treatment_combinations(io_methods, Tail(db_sizes), replicates)

(* numpy's global generator: a state in RngStates, set by seed() and       *)
(* advanced by every draw.                                                 *)
RngStates == 0..100

NextRng(st) == (st * 37 + 11) % Cardinality(RngStates)

\* np.random.seed(seed), variant that leaves the generator as it was
seed_rng_ignored(seed, st) == st

\* np.random.seed(seed): the state depends on the seed alone
seed_rng(seed, st) == (seed * 53 + 7) % Cardinality(RngStates)

\* one draw of an integer in 0..n-1
RandBelow(st, n) == (st \div 3) % n

Swap(x, i, j) == [x EXCEPT ![i] = x[j], ![j] = x[i]]

\* Fisher-Yates from position i down, as np.random.shuffle and
\* DataFrame.sample(frac=1.0) draw it; result: the list and the state after
RECURSIVE ShuffleFrom(_, _, _)
ShuffleFrom(x, i, st) ==
    IF i < 2 THEN [list |-> x, rng |-> st]
    ELSE ShuffleFrom(Swap(x, i, RandBelow(st, i) + 1), i - 1, NextRng(st))

Shuffle(x, st) == ShuffleFrom(x, Len(x), st)

\* Series.unique(): the values in order of first appearance
RECURSIVE Unique(_)
Unique(x) ==
    IF x = <<>> THEN <<>>
    ELSE LET front == Unique(SubSeq(x, 1, Len(x) - 1))
             last == x[Len(x)]
         IN  IF \E i \in 1..Len(front) : front[i] = last THEN front ELSE Append(front, last)

\* df[df[col] == value]: the rows that satisfy the test, in order
RECURSIVE SelectSize(_, _)
SelectSize(df, value) ==
    IF df = <<>> THEN <<>>
    ELSE (IF Head(df).db_size_gb = value THEN <<Head(df)>> ELSE <<>>)
            \o SelectSize(Tail(df), value)

Extend(row, more) ==
    [f \in (DOMAIN row) \cup (DOMAIN more) |-> IF f \in DOMAIN more THEN more[f] ELSE row[f]]

\* schedule.insert(0, 'run_order', range(1, len(schedule) + 1))
insert_run_order(df, first) ==
    [i \in 1..Len(df) |-> Extend(df[i], [run_order |-> first + i - 1])]

\* generate_crd_schedule: rows and generator state after, with the draws made
generate_crd_schedule(treatments_df, seed, st) ==
    LET st0 == IF seed = -1 THEN st ELSE seed_rng(seed, st)
        sh == Shuffle(treatments_df, st0)
        numbered == insert_run_order(sh.list, 1)
    IN  [schedule |-> [i \in 1..Len(numbered) |->
                          Extend(numbered[i], [design_type |-> "CRD", block_id |-> <<"NA">>])],
         rng |-> sh.rng,
         draws |-> <<[kind |-> "all", what |-> 0, n |-> Len(treatments_df)]>>]

\* the loop of generate_rcbd_schedule over the shuffled block_ids, from block
\* number block_num on: the blocks' rows concatenated, the state, the draws
RECURSIVE rcbd_blocks(_, _, _, _)
rcbd_blocks(treatments_df, block_ids, block_num, st) ==
    IF block_num > Len(block_ids) THEN [rows |-> <<>>, rng |-> st, draws |-> <<>>]
    ELSE LET block_value == block_ids[block_num]
             block_data == SelectSize(treatments_df, block_value)
             sh == Shuffle(block_data, st)
             labelled == [i \in 1..Len(sh.list) |->
                            Extend(sh.list[i],
                                   [block_id |-> <<"Block", block_num, "_",
                                                   format_db_label(block_value)>>])]
             rest == rcbd_blocks(treatments_df, block_ids, block_num + 1, sh.rng)
         IN  [rows |-> labelled \o rest.rows,
              rng |-> rest.rng,
              draws |-> <<[kind |-> "block", what |-> block_value, n |-> Len(block_data)]>>
                            \o rest.draws]

\* generate_rcbd_schedule, variant that numbers the runs inside each block
generate_rcbd_schedule_numbered_per_block(treatments_df, seed, st) ==
    LET st0 == IF seed = -1 THEN st ELSE seed_rng(seed, st)
        sizes == [i \in 1..Len(treatments_df) |-> treatments_df[i].db_size_gb]
        ids == Shuffle(Unique(sizes), st0)
        blocks == rcbd_blocks(treatments_df, ids.list, 1, ids.rng)
        position(i) == Cardinality({j \in 1..i : blocks.rows[j].block_id = blocks.rows[i].block_id})
    IN  [schedule |-> [i \in 1..Len(blocks.rows) |->
                          Extend(blocks.rows[i],
                                 [run_order |-> position(i), design_type |-> "RCBD"])],
         rng |-> blocks.rng,
         draws |-> <<[kind |-> "block_ids", what |-> 0, n |-> Len(ids.list)]>> \o blocks.draws]

\* generate_rcbd_schedule, variant that shuffles the concatenated rows once
\* more
generate_rcbd_schedule_reshuffled(treatments_df, seed, st) ==
    LET st0 == IF seed = -1 THEN st ELSE seed_rng(seed, st)
        sizes == [i \in 1..Len(treatments_df) |-> treatments_df[i].db_size_gb]
        ids == Shuffle(Unique(sizes), st0)
        blocks == rcbd_blocks(treatments_df, ids.list, 1, ids.rng)
        mixed == Shuffle(blocks.rows, blocks.rng)
        numbered == insert_run_order(mixed.list, 1)
    IN  [schedule |-> [i \in 1..Len(numbered) |->
                          Extend(numbered[i], [design_type |-> "RCBD"])],
         rng |-> mixed.rng,
         draws |-> <<[kind |-> "block_ids", what |-> 0, n |-> Len(ids.list)]>> \o blocks.draws]

\* generate_rcbd_schedule with blocking_factor = 'db_size_gb'
generate_rcbd_schedule(treatments_df, seed, st) ==
    LET st0 == IF seed = -1 THEN st ELSE seed_rng(seed, st)
        sizes == [i \in 1..Len(treatments_df) |-> treatments_df[i].db_size_gb]
        ids == Shuffle(Unique(sizes), st0)
        blocks == rcbd_blocks(treatments_df, ids.list, 1, ids.rng)
        numbered == insert_run_order(blocks.rows, 1)
    IN  [schedule |-> [i \in 1..Len(numbered) |->
                          Extend(numbered[i], [design_type |-> "RCBD"])],
         rng |-> blocks.rng,
         draws |-> <<[kind |-> "block_ids", what |-> 0, n |-> Len(ids.list)]>> \o blocks.draws]

\* add_execution_metadata; cumulative_time_hours is kept as the exact
\* fraction cumulative_time_min / 60, NaN as NONE
add_execution_metadata(sched, runtime_per_run, cooldown) ==
    [i \in 1..Len(sched) |->
        Extend(sched[i],
               [estimated_runtime_min |-> runtime_per_run,
                cooldown_min |-> cooldown,
                cumulative_time_min |-> sched[i].run_order * (runtime_per_run + cooldown),
                cumulative_time_hours |->
                    <<sched[i].run_order * (runtime_per_run + cooldown), 60>>,
                status |-> S_PENDING,
                actual_runtime_sec |-> NONE,
                execution_timestamp |-> EMPTY,
                qphh_result |-> NONE,
                power_result |-> NONE,
                throughput_result |-> NONE,
                notes |-> EMPTY])]

\* generate_summary_stats: the counts of the (db_size_gb, io_method) groups
\* and whether they are all equal
generate_summary_stats(sched) ==
    LET cells == {<<sched[i].db_size_gb, sched[i].io_method>> : i \in 1..Len(sched)}
        count(c) == Cardinality({i \in 1..Len(sched) :
                                    <<sched[i].db_size_gb, sched[i].io_method>> = c})
    IN  [total_runs |-> Len(sched),
         balanced |-> Cardinality({count(c) : c \in cells}) = 1,
         design_type |-> sched[1].design_type]

(* main() of generate_experimental_design.py, one process after another   *)
(* started with the same command line                                      *)

MaxSizes == 2        \* longest --db-sizes list
MaxMethods == 2      \* longest --io-methods list
MaxReplicates == 2   \* largest --replicates

DbSizeArgs == {-1000, 0, 10, 1000, 2500}
IoMethodArgs == {"sync", "iouring"}
\* (--runtime-per-run, --cooldown) pairs
TimingArgs == {<<30, 5>>, <<0, 5>>, <<30, -1>>}
\* --seed values; -1 stands for no --seed (None)
SeedArgs == {-1, 1}
\* the processes started with the same command line, one after the other
Runs == {1, 2}
\* states numpy's generator may have when a process starts (OS entropy)
EntropyStates == {4, 9}
\* schedule functions a caller applies; main applies RCBD
Designs == {"RCBD", "CRD"}

RECURSIVE ListsOf(_, _)
ListsOf(S, n) ==
    IF n = 0 THEN {<<>>} ELSE {Append(l, x) : l \in ListsOf(S, n - 1), x \in S}

NoFiles == [csv |-> NONE, summary |-> NONE]

NoExecutor == [kind |-> "none", api |-> "none", concurrent |-> FALSE, queries |-> <<>>, pool_size |-> 0]
NoBatch == [pc |-> "off", i |-> 0, query_times |-> <<>>, error |-> "none"]
ExecIdle ==
    /\ executor = NoExecutor /\ batch = NoBatch
    /\ sync_pool = 0 /\ async_pool = 0 /\ pools = <<>> /\ calls = <<>>

DriversIdle == job = <<>> /\ jpc = "off" /\ result = <<>>

ToolsIdle ==
    /\ fs = <<>> /\ proc = <<>> /\ started = <<>> /\ nprocs = 0 /\ firstBackup = <<>>

RepairIdle ==
    /\ rows = <<>> /\ rows0 = <<>> /\ passes = <<>>
    /\ rpc = "off" /\ ri = 0 /\ realigned = 0 /\ hours_backfilled = 0

DesignInit ==
    /\ argv \in [replicates : 0..MaxReplicates,
                 db_sizes : UNION {ListsOf(DbSizeArgs, n) : n \in 1..MaxSizes},
                 io_methods : UNION {ListsOf(IoMethodArgs, n) : n \in 1..MaxMethods},
                 seed : SeedArgs,
                 timing : TimingArgs,
                 design : Designs]
    /\ args = argv
    /\ gpc = "parse_args"
    /\ rng \in EntropyStates
    /\ treatments = <<>> /\ schedule = <<>> /\ draws = <<>>
    /\ out = NoFiles
    /\ exitCode = -1
    /\ run = 1
    /\ prevOut = NoFiles
    /\ RepairIdle
    /\ ToolsIdle
    /\ DriversIdle
    /\ ExecIdle

\* db_size_type's test, variant that lets zero through
db_size_rejected_negative_only(value) == value < 0

\* db_size_type raises ArgumentTypeError for this value
db_size_rejected(value) == value <= 0

\* parser.parse_args(): a rejected --db-sizes value ends the process with
\* argparse's status 2
ParseArgs ==
    /\ gpc = "parse_args"
    /\ IF \E i \in 1..Len(argv.db_sizes) : db_size_rejected(argv.db_sizes[i])
       THEN gpc' = "exit" /\ exitCode' = 2
       ELSE gpc' = "validate" /\ UNCHANGED exitCode
    /\ UNCHANGED <<argv, args, rng, treatments, schedule, draws, out, run, prevOut, repairVars, toolVars, driverVars, execVars>>

\* the three tests after parse_args, variant whose first test is replicates < 0
validation_fails_off_by_one(a) ==
    \/ a.replicates < 0
    \/ a.timing[1] < 1
    \/ a.timing[2] < 0

\* the three tests after parse_args: each prints an error and calls sys.exit(1)
validation_fails(a) ==
    \/ a.replicates < 1
    \/ a.timing[1] < 1
    \/ a.timing[2] < 0

Validate ==
    /\ gpc = "validate"
    /\ IF validation_fails(args)
       THEN gpc' = "exit" /\ exitCode' = 1
       ELSE gpc' = "seed" /\ UNCHANGED exitCode
    /\ UNCHANGED <<argv, args, rng, treatments, schedule, draws, out, run, prevOut, repairVars, toolVars, driverVars, execVars>>

\* if args.seed is None: args.seed = np.random.randint(0, 10000)
ChooseSeed ==
    /\ gpc = "seed"
    /\ IF args.seed = -1
       THEN \E sd \in SeedArgs \ {-1} : args' = [args EXCEPT !.seed = sd]
       ELSE UNCHANGED args
    /\ rng' = IF args.seed = -1 THEN NextRng(rng) ELSE rng
    /\ gpc' = "treatments"
    /\ UNCHANGED <<argv, treatments, schedule, draws, out, exitCode, run, prevOut, repairVars, toolVars, driverVars, execVars>>

GenerateTreatments ==
    /\ gpc = "treatments"
    /\ treatments' = generate_treatment_combinations(args.io_methods, args.db_sizes,
                                                     args.replicates)
    /\ gpc' = "schedule"
    /\ UNCHANGED <<argv, args, rng, schedule, draws, out, exitCode, run, prevOut, repairVars, toolVars, driverVars, execVars>>

GenerateSchedule ==
    /\ gpc = "schedule"
    /\ LET g == IF args.design = "RCBD"
                THEN generate_rcbd_schedule(treatments, args.seed, rng)
                ELSE generate_crd_schedule(treatments, args.seed, rng)
       IN  /\ schedule' = g.schedule
           /\ rng' = g.rng
           /\ draws' = g.draws
    /\ gpc' = "metadata"
    /\ UNCHANGED <<argv, args, treatments, out, exitCode, run, prevOut, repairVars, toolVars, driverVars, execVars>>

AddMetadata ==
    /\ gpc = "metadata"
    /\ schedule' = add_execution_metadata(schedule, args.timing[1], args.timing[2])
    /\ gpc' = "save"
    /\ UNCHANGED <<argv, args, rng, treatments, draws, out, exitCode, run, prevOut, repairVars, toolVars, driverVars, execVars>>

\* generate_summary_stats and save_schedule: the CSV, then the summary text
\* (which carries the time of writing, here the process number)
SaveSchedule ==
    /\ gpc = "save"
    /\ out' = [csv |-> schedule,
               summary |-> Extend(generate_summary_stats(schedule), [generated |-> run])]
    /\ gpc' = "done"
    /\ exitCode' = 0
    /\ UNCHANGED <<argv, args, rng, treatments, schedule, draws, run, prevOut, repairVars, toolVars, driverVars, execVars>>

\* the process has ended; the next one starts with the same command line,
\* after the files of the one before were set aside
NextProcess ==
    /\ gpc \in {"done", "exit"}
    /\ run + 1 \in Runs
    /\ run' = run + 1
    /\ prevOut' = out
    /\ out' = NoFiles
    /\ args' = argv
    /\ gpc' = "parse_args"
    /\ rng' \in EntropyStates
    /\ treatments' = <<>> /\ schedule' = <<>> /\ draws' = <<>>
    /\ exitCode' = -1
    /\ UNCHANGED <<argv, repairVars, toolVars, driverVars, execVars>>

DesignNext ==
    \/ ParseArgs \/ Validate \/ ChooseSeed \/ GenerateTreatments
    \/ GenerateSchedule \/ AddMetadata \/ SaveSchedule \/ NextProcess

SpecDesign == DesignInit /\ [][DesignNext]_vars

-----------------------------------------------------------------------------
(* Claims about the design generator, checked under SpecDesign *)

\* main has a schedule in hand
Scheduled == gpc \in {"metadata", "save", "done"}

Count(seq, x) == Cardinality({i \in 1..Len(seq) : seq[i] = x})

TreatmentFields == {"db_size_gb", "db_name", "io_method", "replicate", "treatment_id"}
TreatmentOf(row) == [f \in TreatmentFields |-> row[f]]

\* C1: in every generated schedule (CRD or RCBD) over N treatment rows the
\* run_order values are exactly 1..N, each once, and follow the row order.
C1_RunOrderDense ==
    Scheduled =>
        /\ Len(schedule) = Len(treatments)
        /\ {schedule[i].run_order : i \in 1..Len(schedule)} = 1..Len(treatments)
        /\ \A i \in 1..Len(schedule) : schedule[i].run_order = i

\* an RCBD schedule of two blocks with at least two rows each has been saved
C1_Witness ==
    /\ gpc = "done" /\ args.design = "RCBD"
    /\ Cardinality({schedule[i].block_id : i \in 1..Len(schedule)}) = 2
    /\ Len(schedule) >= 4
    /\ out.csv = schedule

\* the rows of one (db_size, io_method) cell
CellRows(size, method) ==
    {i \in 1..Len(schedule) :
        schedule[i].db_size_gb = size /\ schedule[i].io_method = method}

\* C2 as stated: for every accepted list of methods and sizes, each
\* (db_size, io_method) cell of the RCBD schedule has exactly r rows, with
\* replicate numbers 1..r each once.
C2_CellHasReplicatesRows ==
    (Scheduled /\ args.design = "RCBD") =>
        \A a \in 1..Len(args.db_sizes), b \in 1..Len(args.io_methods) :
            LET cell == CellRows(args.db_sizes[a], args.io_methods[b])
            IN  /\ Cardinality(cell) = args.replicates
                /\ \A rep \in 1..args.replicates :
                      Cardinality({i \in cell : schedule[i].replicate = rep}) = 1

\* C2 amended: each cell has r rows for every time its size occurs in the
\* size list times every time its method occurs in the method list, each
\* replicate number 1..r that many times (exactly r rows, 1..r once each,
\* when neither list repeats an entry); the schedule holds every treatment
\* row as often as the treatment set does.
C2_CellBalanced ==
    (Scheduled /\ args.design = "RCBD") =>
        /\ \A a \in 1..Len(args.db_sizes), b \in 1..Len(args.io_methods) :
              LET cell == CellRows(args.db_sizes[a], args.io_methods[b])
                  times == Count(args.db_sizes, args.db_sizes[a])
                              * Count(args.io_methods, args.io_methods[b])
              IN  /\ Cardinality(cell) = args.replicates * times
                  /\ \A i \in cell : schedule[i].replicate \in 1..args.replicates
                  /\ \A rep \in 1..args.replicates :
                        Cardinality({i \in cell : schedule[i].replicate = rep}) = times
        /\ Len(schedule) = Len(treatments)
        /\ \A i \in 1..Len(treatments) :
              Cardinality({j \in 1..Len(schedule) : TreatmentOf(schedule[j]) = treatments[i]})
                  = Count(treatments, treatments[i])

\* an RCBD schedule over two distinct sizes, two distinct methods and two
\* replicates has been saved
C2_Witness ==
    /\ gpc = "done" /\ args.design = "RCBD"
    /\ args.replicates = 2
    /\ Len(args.db_sizes) = 2 /\ args.db_sizes[1] # args.db_sizes[2]
    /\ Len(args.io_methods) = 2 /\ args.io_methods[1] # args.io_methods[2]
    /\ Len(out.csv) = 8

\* the k-th block of an RCBD schedule: the size of the rows labelled Block<k>
BlockSizes(k) == {schedule[i].db_size_gb : i \in {j \in 1..Len(schedule) : schedule[j].block_id[2] = k}}

\* C3: a process started with the same seed and the same parameters as the
\* one before writes the same schedule rows in the same order; for RCBD the
\* draws are one block-order shuffle, then one within-block shuffle per block
\* in the shuffled block order.
C3_SameSeedSameSchedule ==
    /\ (run >= 2 /\ gpc = "done" /\ argv.seed # -1) => out.csv = prevOut.csv
    /\ (Scheduled /\ args.design = "RCBD") =>
          /\ Len(draws) = 1 + Cardinality({schedule[i].db_size_gb : i \in 1..Len(schedule)})
          /\ draws[1].kind = "block_ids"
          /\ \A k \in 2..Len(draws) :
                /\ draws[k].kind = "block"
                /\ BlockSizes(k - 1) = {draws[k].what}

\* a second process given a seed has saved a schedule that is not in
\* treatment order, after starting from another generator state
C3_Witness ==
    /\ run >= 2 /\ gpc = "done" /\ argv.seed # -1
    /\ Len(out.csv) >= 4
    /\ \E i \in 1..Len(schedule) : TreatmentOf(schedule[i]) # treatments[i]
    /\ Len(draws) = 3

\* the command line is one the generator must reject
BadConfiguration(a) ==
    \/ a.replicates < 1
    \/ \E i \in 1..Len(a.db_sizes) : a.db_sizes[i] <= 0

\* C4: with replicates < 1 or a non-positive database size the process ends
\* with a nonzero exit status, and it neither generates a treatment nor
\* writes the schedule CSV or the summary.
C4_BadConfigurationRejected ==
    BadConfiguration(argv) =>
        /\ gpc \in {"parse_args", "validate", "exit"}
        /\ gpc = "exit" => exitCode \in {1, 2}
        /\ gpc # "exit" => exitCode = -1
        /\ treatments = <<>> /\ schedule = <<>> /\ draws = <<>>
        /\ out = NoFiles

\* a process given --replicates 0 and only positive sizes has ended
C4_Witness ==
    /\ gpc = "exit" /\ exitCode = 1
    /\ argv.replicates < 1
    /\ \A i \in 1..Len(argv.db_sizes) : argv.db_sizes[i] > 0
    /\ argv.timing = <<30, 5>>

-----------------------------------------------------------------------------
(* Rows handed to repair_rows *)

MaxRows == 2      \* longest list of rows
MaxPasses == 2    \* calls of repair_rows on the same list

Str_completed_padded == <<" ","c","o","m","p","l","e","t","e","d"," ">>
Str_failed_padded == <<" ","f","a","i","l","e","d">>
Str_runtime == <<"1","2",".","5">>
Str_timestamp == <<"t","s">>
Str_qphh == <<"q">>
Str_power == <<"p">>
Str_throughput == <<"t">>
Str_notes == <<"n","o","t","e">>
Str_hours == <<"0",".","5","8">>
Str_35 == <<"3","5">>
Str_7_5 == <<" ","7",".","5">>
Str_abc == <<"a","b","c">>

StatusTexts == {S_PENDING, Str_completed_padded, Str_runtime, EMPTY}
HoursTexts == {EMPTY, S_COMPLETED, Str_failed_padded, Str_hours}
MinutesTexts == {Str_35, Str_7_5, Str_abc, EMPTY}

\* the fields after status, as a run leaves them in a legacy (shifted) row and
\* in a current row
Tails ==
    { [actual_runtime_sec |-> EMPTY, execution_timestamp |-> EMPTY, qphh_result |-> EMPTY,
       power_result |-> EMPTY, throughput_result |-> EMPTY, notes |-> NONE],
      [actual_runtime_sec |-> Str_timestamp, execution_timestamp |-> Str_qphh,
       qphh_result |-> Str_power, power_result |-> Str_throughput,
       throughput_result |-> Str_notes, notes |-> NONE],
      [actual_runtime_sec |-> Str_timestamp, execution_timestamp |-> Str_qphh,
       qphh_result |-> Str_power, power_result |-> EMPTY,
       throughput_result |-> Str_throughput, notes |-> EMPTY],
      [actual_runtime_sec |-> Str_runtime, execution_timestamp |-> Str_timestamp,
       qphh_result |-> Str_qphh, power_result |-> Str_power,
       throughput_result |-> NONE, notes |-> NONE] }

MakeRow(minutes, hours, status, tail) ==
    [cumulative_time_min |-> minutes, cumulative_time_hours |-> hours, status |-> status,
     actual_runtime_sec |-> tail.actual_runtime_sec,
     execution_timestamp |-> tail.execution_timestamp,
     qphh_result |-> tail.qphh_result, power_result |-> tail.power_result,
     throughput_result |-> tail.throughput_result, notes |-> tail.notes]

\* every row the first position of the list may hold
RowUniverse ==
    {MakeRow(m, h, s, t) : m \in MinutesTexts, h \in HoursTexts, s \in StatusTexts, t \in Tails}

\* rows the later positions hold: one aligned, one shifted, one without hours
NeighbourRows ==
    { MakeRow(Str_35, Str_hours, S_COMPLETED, CHOOSE t \in Tails : t.throughput_result = NONE),
      MakeRow(Str_35, S_COMPLETED, Str_runtime, CHOOSE t \in Tails : t.throughput_result = Str_notes),
      MakeRow(Str_7_5, EMPTY, S_PENDING, CHOOSE t \in Tails : t.actual_runtime_sec = EMPTY) }

RECURSIVE RowLists(_)
RowLists(n) ==
    IF n = 0 THEN {<<>>}
    ELSE IF n = 1 THEN {<<r>> : r \in RowUniverse}
    ELSE {Append(l, r) : l \in RowLists(n - 1), r \in NeighbourRows}

DesignIdle ==
    /\ argv = <<>> /\ args = <<>> /\ gpc = "off" /\ rng = 0 /\ treatments = <<>> /\ schedule = <<>>
    /\ draws = <<>> /\ out = <<>> /\ exitCode = -1 /\ run = 0 /\ prevOut = <<>>

RepairInit ==
    /\ rows \in UNION {RowLists(n) : n \in 0..MaxRows}
    /\ rows0 = rows
    /\ passes = <<>>
    /\ rpc = "idle" /\ ri = 0 /\ realigned = 0 /\ hours_backfilled = 0
    /\ DesignIdle
    /\ ToolsIdle
    /\ DriversIdle
    /\ ExecIdle

\* repair_rows is entered: counters at zero, loop at the first row
CallRepairRows ==
    /\ rpc = "idle"
    /\ Len(passes) < MaxPasses
    /\ realigned' = 0 /\ hours_backfilled' = 0
    /\ ri' = 1
    /\ rpc' = IF Len(rows) = 0 THEN "return" ELSE "realign"
    /\ UNCHANGED <<rows, rows0, passes, designVars, toolVars, driverVars, execVars>>

\* loop body, first statement: if realign_row(row): realigned += 1
RealignStep ==
    /\ rpc = "realign"
    /\ rows' = [rows EXCEPT ![ri] = realign_row(rows[ri])]
    /\ realigned' = realigned + (IF realign_applies(rows[ri]) THEN 1 ELSE 0)
    /\ rpc' = "fill"
    /\ UNCHANGED <<rows0, passes, ri, hours_backfilled, designVars, toolVars, driverVars, execVars>>

\* loop body, second statement: if fill_hours(row): hours_backfilled += 1
FillStep ==
    /\ rpc = "fill"
    /\ rows' = [rows EXCEPT ![ri] = fill_hours(rows[ri])]
    /\ hours_backfilled' = hours_backfilled + (IF fill_applies(rows[ri]) THEN 1 ELSE 0)
    /\ ri' = ri + 1
    /\ rpc' = IF ri = Len(rows) THEN "return" ELSE "realign"
    /\ UNCHANGED <<rows0, passes, realigned, designVars, toolVars, driverVars, execVars>>

\* return realigned, hours_backfilled
ReturnCounts ==
    /\ rpc = "return"
    /\ passes' = Append(passes, [rows |-> rows, realigned |-> realigned,
                                 hours_backfilled |-> hours_backfilled])
    /\ rpc' = "idle"
    /\ UNCHANGED <<rows, rows0, ri, realigned, hours_backfilled, designVars, toolVars, driverVars, execVars>>

RepairNext == CallRepairRows \/ RealignStep \/ FillStep \/ ReturnCounts

SpecRepair == RepairInit /\ [][RepairNext]_vars

\* the loop agrees with repair_rows taken as one function
RepairLoopIsRepairRows ==
    Len(passes) >= 1 =>
        /\ passes[1].rows = repair_rows(rows0).rows
        /\ passes[1].realigned = repair_rows(rows0).realigned
        /\ passes[1].hours_backfilled = repair_rows(rows0).hours_backfilled

-----------------------------------------------------------------------------
(* Claims about Schedule Repair, checked under SpecRepair *)

\* a row whose status column holds a status value (trimmed, any case)
IsAligned(row) == StrUpper(StrStrip(PyOr(row.status, EMPTY))) \in STATUS_VALUES

ShiftedFields == {"cumulative_time_hours", "status", "actual_runtime_sec",
                  "execution_timestamp", "qphh_result", "power_result",
                  "throughput_result"}
RowFields == ShiftedFields \cup {"cumulative_time_min", "notes"}

\* C5: Schedule Repair is idempotent: every call of repair_rows after the
\* first leaves the rows as the first call left them and reports 0 rows
\* realigned and 0 rows backfilled.
C5_RepairIdempotent ==
    \A k \in 2..Len(passes) :
        /\ passes[k].rows = passes[1].rows
        /\ passes[k].realigned = 0
        /\ passes[k].hours_backfilled = 0

\* a second call has returned on a list the first call both realigned and backfilled
C5_Witness ==
    /\ Len(passes) >= 2
    /\ passes[1].realigned >= 1
    /\ passes[1].hours_backfilled >= 1
    /\ passes[1].rows # rows0

\* C6 as stated: after repair_rows every field of a correctly-aligned row
\* equals its value before.
C6_AlignedRowUntouched ==
    Len(passes) >= 1 =>
        \A i \in 1..Len(rows0) : IsAligned(rows0[i]) => passes[1].rows[i] = rows0[i]

\* C6 amended: realign_row never modifies a correctly-aligned row, and
\* repair_rows leaves every field of it but cumulative_time_hours as it was;
\* cumulative_time_hours changes only when it was empty and cumulative_time_min
\* parses, and then to cumulative_time_min / 60 with two decimals.
C6_AlignedRowOnlyBackfilled ==
    \A i \in 1..Len(rows0) :
        IsAligned(rows0[i]) =>
            LET r0 == rows0[i]
                r == rows[i]
                minutes == parse_minutes(r0.cumulative_time_min)
            IN  /\ [r EXCEPT !.cumulative_time_hours = r0.cumulative_time_hours] = r0
                /\ r.cumulative_time_hours # r0.cumulative_time_hours =>
                        /\ ~Truthy(r0.cumulative_time_hours)
                        /\ minutes.kind # "bad"
                        /\ r.cumulative_time_hours = FormatFloat2(DivBy(minutes, 60))
                /\ (passes = <<>> /\ rpc = "fill" /\ ri = i) => r = r0

\* an aligned row holding a status value in cumulative_time_hours has gone
\* through repair_rows, and so has an aligned row that was backfilled
C6_Witness ==
    /\ Len(passes) >= 1
    /\ \E i \in 1..Len(rows0) :
            /\ IsAligned(rows0[i])
            /\ rows0[i].cumulative_time_hours = S_COMPLETED
    /\ \E i \in 1..Len(rows0) :
            /\ IsAligned(rows0[i])
            /\ passes[1].rows[i] # rows0[i]

\* C7: for a misaligned row realign_row sets status to the old
\* cumulative_time_hours (trimmed), actual_runtime_sec to the old status,
\* execution_timestamp to the old actual_runtime_sec, qphh_result to the old
\* execution_timestamp, power_result to the old qphh_result, throughput_result
\* to the old power_result, or to the old throughput_result when the old
\* power_result is empty, and clears cumulative_time_hours; the other fields
\* keep their values.
C7_RealignShiftsFields ==
    (passes = <<>> /\ rpc = "fill" /\ realign_applies(rows0[ri])) =>
        LET r0 == rows0[ri]
            r == rows[ri]
        IN  /\ r.status = StrStrip(r0.cumulative_time_hours)
            /\ r0.cumulative_time_hours \in STATUS_VALUES => r.status = r0.cumulative_time_hours
            /\ r.actual_runtime_sec = r0.status
            /\ r.execution_timestamp = r0.actual_runtime_sec
            /\ r.qphh_result = r0.execution_timestamp
            /\ r.power_result = r0.qphh_result
            /\ r.throughput_result =
                    (IF r0.power_result \in {EMPTY, NONE} THEN r0.throughput_result
                     ELSE r0.power_result)
            /\ r.cumulative_time_hours = EMPTY
            /\ r.cumulative_time_min = r0.cumulative_time_min
            /\ r.notes = r0.notes

\* realign_row has just rewritten a misaligned row whose power_result was
\* empty and whose throughput_result was not
C7_Witness ==
    /\ passes = <<>> /\ rpc = "fill"
    /\ realign_applies(rows0[ri])
    /\ rows0[ri].cumulative_time_hours \in STATUS_VALUES
    /\ rows0[ri].power_result = EMPTY
    /\ Truthy(rows0[ri].throughput_result)
    /\ rows[ri].throughput_result = rows0[ri].throughput_result

\* C8: repair changes placement only: every non-empty value a misaligned row
\* held in cumulative_time_hours .. throughput_result before repair is held
\* (as it was, or trimmed) by some field of the row at every later point.
C8_RepairKeepsEveryValue ==
    \A i \in 1..Len(rows0) :
        realign_applies(rows0[i]) =>
            \A f \in ShiftedFields :
                Truthy(rows0[i][f]) =>
                    \E g \in RowFields : rows[i][g] \in {rows0[i][f], StrStrip(rows0[i][f])}

-----------------------------------------------------------------------------
(* recompute_qphh.py: floats *)
(* A float is [kind, neg, num, den]: kind "num" is the exact fraction      *)
(* (-1)^neg * num/den, "inf" and "nan" are the IEEE values, "sqrt" is the  *)
(* square root of num/den, "surd" a value the model's arithmetic cannot    *)
(* state exactly.                                                          *)

RECURSIVE Gcd(_, _)
Gcd(a, b) == IF b = 0 THEN a ELSE Gcd(b, a % b)

Frac(neg, n, d) ==
    LET g == Gcd(n, d)
    IN  [kind |-> "num", neg |-> neg, num |-> n \div g, den |-> d \div g]

FInf(neg) == [kind |-> "inf", neg |-> neg, num |-> 0, den |-> 1]
FNan == [kind |-> "nan", neg |-> FALSE, num |-> 0, den |-> 1]
FSurd == [kind |-> "surd", neg |-> FALSE, num |-> 0, den |-> 1]

\* x * y for two "num" floats, cancelling before multiplying
FracMul(x, y) ==
    LET a == Frac(x.neg, x.num, y.den)
        b == Frac(y.neg, y.num, x.den)
    IN  [kind |-> "num", neg |-> (x.neg # y.neg), num |-> a.num * b.num, den |-> a.den * b.den]

\* x <= 0 as Python evaluates it (False for nan)
NonPositive(x) ==
    \/ x.kind = "num" /\ (x.num = 0 \/ x.neg)
    \/ x.kind = "inf" /\ x.neg

RECURSIVE Pow2(_)
Pow2(k) == IF k = 0 THEN 1 ELSE 2 * Pow2(k - 1)

RECURSIVE IsPow2(_)
IsPow2(n) == n = 1 \/ (n > 1 /\ n % 2 = 0 /\ IsPow2(n \div 2))

RECURSIVE Log2(_)
Log2(n) == IF n <= 1 THEN 0 ELSE 1 + Log2(n \div 2)

\* math.log(t) in units of log 2, for a positive "num" float that is a power
\* of two; exact is FALSE for every other value
LogTwo(t) ==
    LET r == Frac(FALSE, t.num, t.den)
    IN  IF r.den = 1 /\ IsPow2(r.num) THEN [exact |-> TRUE, k |-> Log2(r.num)]
        ELSE IF r.num = 1 /\ IsPow2(r.den) THEN [exact |-> TRUE, k |-> 0 - Log2(r.den)]
        ELSE [exact |-> FALSE, k |-> 0]

RECURSIVE Isqrt(_)
Isqrt(x) ==
    IF x < 2 THEN x
    ELSE LET h == 2 * Isqrt(x \div 4)
         IN  IF (h + 1) * (h + 1) <= x THEN h + 1 ELSE h

\* round(100 * sqrt(n/d)): half-even on an exact tie
SqrtCents(n, d) ==
    LET y == (40000 * n) \div d
        r == Isqrt(y)
        tie == (40000 * n) % d = 0 /\ r * r = y /\ r % 2 = 1
        up == (r + 1) \div 2
    IN  IF tie /\ up % 2 = 1 THEN up - 1 ELSE up

\* format_metric: f"{value:.2f}"
format_metric(value) ==
    IF value.kind = "sqrt"
    THEN LET cents == SqrtCents(value.num, value.den)
         IN  IntToStr(cents \div 100) \o <<".">>
                \o <<DigitChars[((cents % 100) \div 10) + 1], DigitChars[(cents % 10) + 1]>>
    ELSE IF value.kind = "surd" THEN <<"?">>
    ELSE FormatFloat2(value)

-----------------------------------------------------------------------------
(* recompute_qphh.py: metrics *)
(* A result CSV is a list of groups of equal rows: count is the number of  *)
(* consecutive rows with the same fields.                                  *)

Str_POWER == <<"P","O","W","E","R">>
Str_THROUGHPUT == <<"T","H","R","O","U","G","H","P","U","T">>
Str_0 == <<"0">>

\* parse_positive_float: the float, or None (kind "bad")
parse_positive_float(value) ==
    IF value = NONE THEN NotANumber
    ELSE LET candidate == ParseFloat(value)
         IN  IF candidate.kind \in {"bad", "nan"} \/ NonPositive(candidate)
             THEN NotANumber ELSE candidate

\* the rows of a timing CSV tagged test_type POWER and stream_id 0
RECURSIVE power_stream0_rows(_)
power_stream0_rows(file_rows) ==
    IF file_rows = <<>> THEN <<>>
    ELSE (IF /\ StrUpper(StrStrip(Head(file_rows).test_type)) = Str_POWER
             /\ StrUpper(StrStrip(Head(file_rows).stream_id)) = Str_0
          THEN <<Head(file_rows)>> ELSE <<>>)
            \o power_stream0_rows(Tail(file_rows))

\* collect_times' list: the groups whose execution_time_seconds parses to a
\* positive float, each with that float
RECURSIVE parsed_times(_)
parsed_times(groups) ==
    IF groups = <<>> THEN <<>>
    ELSE LET parsed == parse_positive_float(Head(groups).execution_time_seconds)
         IN  (IF parsed.kind = "bad" THEN <<>>
              ELSE <<[count |-> Head(groups).count, time |-> parsed]>>)
                \o parsed_times(Tail(groups))

RECURSIVE TotalCount(_)
TotalCount(groups) ==
    IF groups = <<>> THEN 0 ELSE Head(groups).count + TotalCount(Tail(groups))

\* collect_times: ok is FALSE for None
collect_times(groups, expected) ==
    LET times == parsed_times(groups)
    IN  IF TotalCount(times) # expected THEN [ok |-> FALSE, times |-> <<>>]
        ELSE [ok |-> TRUE, times |-> times]

\* sum(math.log(t) for t in times), in units of log 2
RECURSIVE LogSum(_)
LogSum(times) ==
    IF times = <<>> THEN 0
    ELSE Head(times).count * LogTwo(Head(times).time).k + LogSum(Tail(times))

\* next(row for row in interval_reader if test_type == "THROUGHPUT", None)
RECURSIVE first_throughput_row(_)
first_throughput_row(file_rows) ==
    IF file_rows = <<>> THEN <<>>
    ELSE IF StrUpper(StrStrip(Head(file_rows).test_type)) = Str_THROUGHPUT
    THEN <<Head(file_rows)>>
    ELSE first_throughput_row(Tail(file_rows))

Failure(reason) ==
    [outcome |-> "none", reason |-> reason, qphh |-> FNan, power |-> FNan, throughput |-> FNan]

\* (3600.0 * scale_factor) / geom_mean for the 24 timings
power_of(times, scale_factor) ==
    LET infinite == \E i \in 1..Len(times) : times[i].time.kind = "inf"
        exact == \A i \in 1..Len(times) : LogTwo(times[i].time).exact
        log_sum == LogSum(times)
        q == log_sum \div 24
    IN  IF scale_factor.kind = "nan" THEN FNan
        ELSE IF scale_factor.kind = "inf"
        THEN (IF infinite THEN FNan ELSE FInf(scale_factor.neg))
        ELSE IF infinite THEN Frac(scale_factor.neg, 0, 1)
        ELSE IF ~exact \/ log_sum % 24 # 0 THEN FSurd
        ELSE IF q >= 0
        THEN FracMul(Frac(scale_factor.neg, scale_factor.num, scale_factor.den),
                     Frac(FALSE, 3600, Pow2(q)))
        ELSE FracMul(Frac(scale_factor.neg, scale_factor.num, scale_factor.den),
                     Frac(FALSE, 3600 * Pow2(0 - q), 1))

\* (stream_count * 22 * 3600.0) / measurement
throughput_of(stream_count, measurement) ==
    IF measurement.kind = "inf" THEN Frac(FALSE, 0, 1)
    ELSE FracMul(Frac(FALSE, stream_count * 22 * 3600, 1),
                 Frac(FALSE, measurement.den, measurement.num))

\* math.sqrt(power_metric * throughput_metric)
qphh_of(power, throughput) ==
    IF power.kind \in {"nan", "inf", "surd"} THEN power
    ELSE LET prod == FracMul(power, throughput)
         IN  [kind |-> "sqrt", neg |-> FALSE, num |-> prod.num, den |-> prod.den]

\* int(float(text)) of compute_metrics' stream count, for a finite float
int_of(x) == IF x.neg THEN 0 - (x.num \div x.den) ELSE x.num \div x.den

\* compute_metrics once the three files are known to exist
metrics_from_files(artifacts, scale_factor) ==
    With(collect_times(power_stream0_rows(artifacts.complete.rows), 22), LAMBDA power_times :
    IF ~power_times.ok THEN Failure("expected 22 POWER stream=0 query timings") ELSE
    With(collect_times(power_stream0_rows(artifacts.refresh.rows), 2), LAMBDA refresh_times :
    IF ~refresh_times.ok THEN Failure("expected 2 POWER refresh timings") ELSE
    With(first_throughput_row(artifacts.interval.rows), LAMBDA interval_row :
    IF interval_row = <<>> THEN Failure("missing THROUGHPUT interval entry") ELSE
    With(parse_positive_float(interval_row[1].measurement_interval_seconds), LAMBDA measurement :
    IF measurement.kind = "bad" THEN Failure("invalid measurement interval") ELSE
    With(IF interval_row[1].stream_count = NONE THEN NotANumber
         ELSE ParseFloat(interval_row[1].stream_count), LAMBDA count_float :
    IF count_float.kind \in {"bad", "nan"} THEN Failure("invalid stream count")
    ELSE IF count_float.kind = "inf" THEN [Failure("OverflowError") EXCEPT !.outcome = "raise"]
    ELSE IF int_of(count_float) <= 0 THEN Failure("stream count must be positive") ELSE
    With(power_of(power_times.times \o refresh_times.times, scale_factor), LAMBDA power_metric :
    With(throughput_of(int_of(count_float), measurement), LAMBDA throughput_metric :
    IF NonPositive(power_metric) \/ NonPositive(throughput_metric)
    THEN Failure("non-positive power or throughput metric")
    ELSE [outcome |-> "metrics", reason |-> "",
          qphh |-> qphh_of(power_metric, throughput_metric),
          power |-> power_metric, throughput |-> throughput_metric])))))))

\* compute_metrics, variant without the existence test of the refresh CSV
compute_metrics_no_refresh_test(artifacts, scale_factor) ==
    IF ~artifacts.complete.exists THEN Failure("missing complete CSV")
    ELSE IF ~artifacts.interval.exists THEN Failure("missing interval CSV")
    ELSE metrics_from_files(artifacts, scale_factor)

\* compute_metrics, variant that tests the three files in the order interval,
\* refresh, complete
compute_metrics_interval_first(artifacts, scale_factor) ==
    IF ~artifacts.interval.exists THEN Failure("missing interval CSV")
    ELSE IF ~artifacts.refresh.exists THEN Failure("missing refresh CSV")
    ELSE IF ~artifacts.complete.exists THEN Failure("missing complete CSV")
    ELSE metrics_from_files(artifacts, scale_factor)

\* compute_metrics: outcome "metrics" with the three values, "none" with the
\* reason, or "raise" for an exception it lets through
compute_metrics(artifacts, scale_factor) ==
    IF ~artifacts.complete.exists THEN Failure("missing complete CSV")
    ELSE IF ~artifacts.refresh.exists THEN Failure("missing refresh CSV")
    ELSE IF ~artifacts.interval.exists THEN Failure("missing interval CSV")
    ELSE metrics_from_files(artifacts, scale_factor)

\* the part of the prefix build_artifacts makes from the row
run_prefix(row) ==
    <<StrStrip(row.run_order), StrStrip(row.db_size_gb),
      StrStrip(row.io_method), StrStrip(row.replicate)>>

AbsentFile == [exists |-> FALSE, rows |-> <<>>]

\* build_artifacts: the three paths under results_dir, each with what the
\* directory holds there
build_artifacts(row, results_dir) ==
    IF run_prefix(row) \in DOMAIN results_dir.files
    THEN results_dir.files[run_prefix(row)]
    ELSE [complete |-> AbsentFile, refresh |-> AbsentFile, interval |-> AbsentFile]

\* normalize_row, variant that also rewrites the status of an aligned row in
\* its canonical form
normalize_row_canonical_status(row) ==
    IF StrUpper(StrStrip(PyOr(row.status, EMPTY))) \in STATUS_VALUES
    THEN [row EXCEPT !.status = StrUpper(StrStrip(PyOr(row.status, EMPTY)))]
    ELSE IF StrUpper(StrStrip(PyOr(row.cumulative_time_hours, EMPTY))) \notin STATUS_VALUES
    THEN row
    ELSE [row EXCEPT
            !.cumulative_time_hours = EMPTY,
            !.status = StrStrip(PyOr(row.cumulative_time_hours, EMPTY)),
            !.actual_runtime_sec = row.status,
            !.execution_timestamp = row.actual_runtime_sec]

\* normalize_row: the row after the call
normalize_row(row) ==
    IF \/ StrUpper(StrStrip(PyOr(row.status, EMPTY))) \in STATUS_VALUES
       \/ StrUpper(StrStrip(PyOr(row.cumulative_time_hours, EMPTY))) \notin STATUS_VALUES
    THEN row
    ELSE [row EXCEPT
            !.cumulative_time_hours = EMPTY,
            !.status = StrStrip(PyOr(row.cumulative_time_hours, EMPTY)),
            !.actual_runtime_sec = row.status,
            !.execution_timestamp = row.actual_runtime_sec]

\* float(row.get("db_size_gb", "1")): kind "bad" for TypeError and ValueError
scale_factor_of(row) ==
    IF row.db_size_gb = NONE THEN NotANumber ELSE ParseFloat(row.db_size_gb)

ResultFields == {"qphh_result", "power_result", "throughput_result"}

\* a row with its three result fields emptied
Unset(row) == [f \in DOMAIN row |-> IF f \in ResultFields THEN EMPTY ELSE row[f]]

\* recompute's loop body, variant that unsets the result fields of a run it
\* could not process
recompute_row_unsets_on_failure(row, results_dir) ==
    With(normalize_row(row), LAMBDA normal :
    With(scale_factor_of(normal), LAMBDA scale_factor :
    IF scale_factor.kind = "bad"
    THEN [row |-> Unset(normal), success |-> FALSE, raised |-> FALSE,
          failure |-> <<[run_order |-> normal.run_order, reason |-> "invalid scale factor"]>>]
    ELSE
    With(compute_metrics(build_artifacts(normal, results_dir), scale_factor), LAMBDA metrics :
    IF metrics.outcome = "raise"
    THEN [row |-> normal, success |-> FALSE, raised |-> TRUE, failure |-> <<>>]
    ELSE IF metrics.outcome = "none"
    THEN [row |-> Unset(normal), success |-> FALSE, raised |-> FALSE,
          failure |-> <<[run_order |-> normal.run_order, reason |-> metrics.reason]>>]
    ELSE [row |-> [normal EXCEPT
                      !.qphh_result = format_metric(metrics.qphh),
                      !.power_result = format_metric(metrics.power),
                      !.throughput_result = format_metric(metrics.throughput)],
          success |-> TRUE, raised |-> FALSE, failure |-> <<>>])))

\* recompute's loop body, variant that keeps a result field the row already
\* holds and fills in only the empty ones
recompute_row_prefers_stored(row, results_dir) ==
    With(normalize_row(row), LAMBDA normal :
    With(scale_factor_of(normal), LAMBDA scale_factor :
    IF scale_factor.kind = "bad"
    THEN [row |-> normal, success |-> FALSE, raised |-> FALSE,
          failure |-> <<[run_order |-> normal.run_order, reason |-> "invalid scale factor"]>>]
    ELSE
    With(compute_metrics(build_artifacts(normal, results_dir), scale_factor), LAMBDA metrics :
    IF metrics.outcome = "raise"
    THEN [row |-> normal, success |-> FALSE, raised |-> TRUE, failure |-> <<>>]
    ELSE IF metrics.outcome = "none"
    THEN [row |-> normal, success |-> FALSE, raised |-> FALSE,
          failure |-> <<[run_order |-> normal.run_order, reason |-> metrics.reason]>>]
    ELSE [row |-> [normal EXCEPT
                      !.qphh_result = PyOr(normal.qphh_result, format_metric(metrics.qphh)),
                      !.power_result = PyOr(normal.power_result, format_metric(metrics.power)),
                      !.throughput_result =
                          PyOr(normal.throughput_result, format_metric(metrics.throughput))],
          success |-> TRUE, raised |-> FALSE, failure |-> <<>>])))

\* one pass of recompute's loop body over a row: the row after it, whether
\* it counted as a success, the failure entry if any, and whether an
\* exception left the loop
recompute_row(row, results_dir) ==
    With(normalize_row(row), LAMBDA normal :
    With(scale_factor_of(normal), LAMBDA scale_factor :
    IF scale_factor.kind = "bad"
    THEN [row |-> normal, success |-> FALSE, raised |-> FALSE,
          failure |-> <<[run_order |-> normal.run_order, reason |-> "invalid scale factor"]>>]
    ELSE
    With(compute_metrics(build_artifacts(normal, results_dir), scale_factor), LAMBDA metrics :
    IF metrics.outcome = "raise"
    THEN [row |-> normal, success |-> FALSE, raised |-> TRUE, failure |-> <<>>]
    ELSE IF metrics.outcome = "none"
    THEN [row |-> normal, success |-> FALSE, raised |-> FALSE,
          failure |-> <<[run_order |-> normal.run_order, reason |-> metrics.reason]>>]
    ELSE [row |-> [normal EXCEPT
                      !.qphh_result = format_metric(metrics.qphh),
                      !.power_result = format_metric(metrics.power),
                      !.throughput_result = format_metric(metrics.throughput)],
          success |-> TRUE, raised |-> FALSE, failure |-> <<>>])))

-----------------------------------------------------------------------------
(* The schedule file, its siblings and the results directory; the two      *)
(* tools run on them one process after another.                            *)
(* A CSV file is [exists, header, rows], header the column names in file   *)
(* order (<<>> for none): a file opened for writing and not               *)
(* yet written has neither header nor rows.  The header of an existing     *)
(* schedule names every column.  A field a short line does not reach is    *)
(* NONE in the row, as DictReader leaves it.                               *)

MaxFileRows == 2     \* longest schedule file, in rows
MaxProcs == 2        \* tool processes run one after another

NoFile == [exists |-> FALSE, header |-> <<>>, rows |-> <<>>]
TruncatedFile == [exists |-> TRUE, header |-> <<>>, rows |-> <<>>]

\* the columns of the schedule the model carries, in the generator's order,
\* and in the order of a schedule whose notes column was moved to the front
ScheduleColumns ==
    <<"run_order", "db_size_gb", "io_method", "replicate", "cumulative_time_min",
      "cumulative_time_hours", "status", "actual_runtime_sec", "execution_timestamp",
      "qphh_result", "power_result", "throughput_result", "notes">>
NotesFirstColumns == <<"notes">> \o SubSeq(ScheduleColumns, 1, Len(ScheduleColumns) - 1)

\* csv.DictWriter(handle, fieldnames): writeheader, then writerows; None is
\* written as ""
WriteCsv(fieldnames, rs) ==
    [exists |-> TRUE, header |-> fieldnames,
     rows |-> [i \in 1..Len(rs) |->
                [f \in DOMAIN rs[i] |-> IF rs[i][f] = NONE THEN EMPTY ELSE rs[i][f]]]]

Str_1 == <<"1">>
Str_2 == <<"2">>
Str_3 == <<"3">>
Str_4 == <<"4">>
Str_1_0 == <<"1",".","0">>
Str_sync == <<"s","y","n","c">>
Str_iouring == <<"i","o","u","r","i","n","g">>
Str_70 == <<"7","0">>
Str_1_33 == <<"1",".","3","3">>
Str_0_88 == <<"0",".","8","8">>
Str_2_00 == <<"2",".","0","0">>
Str_4096 == <<"4","0","9","6">>
Str_79200 == <<"7","9","2","0","0">>
Str_power_padded == <<" ","p","o","w","e","r">>

ToolRow(order, size, method, rep, minutes, hours, status, runtime, stamp, qphh, power, thr, notes) ==
    [run_order |-> order, db_size_gb |-> size, io_method |-> method, replicate |-> rep,
     cumulative_time_min |-> minutes, cumulative_time_hours |-> hours, status |-> status,
     actual_runtime_sec |-> runtime, execution_timestamp |-> stamp, qphh_result |-> qphh,
     power_result |-> power, throughput_result |-> thr, notes |-> notes]

\* a completed run with its results, a legacy line of a completed run
\* (shifted left from status on, one field short), a pending run written
\* without hours, and a completed run without results and without a size
RowCompleted ==
    ToolRow(Str_1, Str_1_0, Str_sync, Str_1, Str_35, Str_hours, S_COMPLETED,
            Str_runtime, Str_timestamp, Str_1_33, Str_0_88, Str_2_00, EMPTY)
RowLegacy ==
    ToolRow(Str_2, Str_1_0, Str_iouring, Str_1, Str_70, S_COMPLETED, Str_runtime,
            Str_timestamp, Str_1_33, Str_0_88, Str_2_00, Str_notes, NONE)
RowPending ==
    ToolRow(Str_3, Str_1_0, Str_sync, Str_2, Str_7_5, EMPTY, S_PENDING,
            EMPTY, EMPTY, EMPTY, EMPTY, EMPTY, EMPTY)
RowNoSize ==
    ToolRow(Str_4, EMPTY, Str_iouring, Str_2, Str_abc, Str_hours, Str_completed_padded,
            Str_runtime, Str_timestamp, EMPTY, EMPTY, EMPTY, EMPTY)

ScheduleRows == {RowCompleted, RowLegacy, RowPending, RowNoSize}

TimingFile(groups) == [exists |-> TRUE, rows |-> groups]
Timings(n, test_type, time) ==
    [count |-> n, test_type |-> test_type, stream_id |-> Str_0, execution_time_seconds |-> time]
Interval(measurement, streams) ==
    [count |-> 1, test_type |-> Str_THROUGHPUT,
     measurement_interval_seconds |-> measurement, stream_count |-> streams]

GoodArtifacts ==
    [complete |-> TimingFile(<<Timings(22, Str_power_padded, Str_4096),
                               Timings(44, Str_THROUGHPUT, Str_2)>>),
     refresh |-> TimingFile(<<Timings(2, Str_POWER, Str_4096)>>),
     interval |-> TimingFile(<<Interval(Str_79200, Str_2)>>)]
NoArtifacts == [complete |-> AbsentFile, refresh |-> AbsentFile, interval |-> AbsentFile]

\* the results directory: missing, complete, without the legacy run's
\* refresh CSV and the pending run's files, with broken contents, or with
\* an infinite stream count for the completed run
ResultsDirs ==
    { [exists |-> FALSE, files |-> <<>>],
      [exists |-> TRUE,
       files |-> [k \in {run_prefix(r) : r \in ScheduleRows} |-> GoodArtifacts]],
      [exists |-> TRUE,
       files |-> [k \in {run_prefix(r) : r \in ScheduleRows} |->
                    IF k = run_prefix(RowLegacy)
                    THEN [GoodArtifacts EXCEPT !.refresh = AbsentFile]
                    ELSE IF k = run_prefix(RowPending) THEN NoArtifacts
                    ELSE IF k = run_prefix(RowCompleted)
                    THEN [GoodArtifacts EXCEPT
                            !.interval = TimingFile(<<Interval(Str_79200, Str_inf)>>)]
                    ELSE GoodArtifacts]],
      [exists |-> TRUE,
       files |-> [k \in {run_prefix(r) : r \in ScheduleRows} |->
                    IF k = run_prefix(RowCompleted)
                    THEN [GoodArtifacts EXCEPT
                            !.complete = TimingFile(<<Timings(21, Str_POWER, Str_4096)>>)]
                    ELSE IF k = run_prefix(RowLegacy)
                    THEN [GoodArtifacts EXCEPT
                            !.interval = TimingFile(<<Interval(Str_0, Str_2)>>)]
                    ELSE GoodArtifacts]] }

ScheduleFiles ==
    {NoFile, TruncatedFile}
        \cup {[exists |-> TRUE, header |-> ScheduleColumns, rows |-> l] :
                l \in UNION {ListsOf(ScheduleRows, n) : n \in 0..MaxFileRows}}
        \cup {[exists |-> TRUE, header |-> NotesFirstColumns, rows |-> <<r>>] :
                r \in ScheduleRows}

Idle ==
    [tool |-> "none", dry_run |-> FALSE, no_backup |-> FALSE, pc |-> "idle",
     fieldnames |-> <<>>, rows |-> <<>>, i |-> 0, realigned |-> 0, hours_backfilled |-> 0,
     successes |-> 0, failures |-> <<>>, exit |-> -1, printed |-> <<>>]

ToolsInit ==
    /\ fs \in [schedule : ScheduleFiles, bak : {NoFile}, tmp : {NoFile}, results : ResultsDirs]
    /\ proc = Idle
    /\ started = fs
    /\ nprocs = 0
    /\ firstBackup = NoFile
    /\ RepairIdle
    /\ DesignIdle
    /\ DriversIdle
    /\ ExecIdle

\* a process is started: either tool, with its flags
StartProcess ==
    /\ proc.pc \in {"idle", "done"}
    /\ nprocs < MaxProcs
    /\ \E tool \in {"fix", "recompute"}, dry \in BOOLEAN, nb \in BOOLEAN :
          /\ tool = "recompute" => ~nb
          /\ proc' = [Idle EXCEPT !.tool = tool, !.dry_run = dry, !.no_backup = nb,
                                  !.pc = "start"]
    /\ started' = fs
    /\ nprocs' = nprocs + 1
    /\ UNCHANGED <<fs, firstBackup, repairVars, designVars, driverVars, execVars>>

Exit(p, code, message) ==
    [p EXCEPT !.pc = "done", !.exit = code, !.printed = Append(p.printed, message)]

(* fix_schedule_csv.main *)

\* `if args.dry_run:` of fix_schedule_csv.main, variant that never returns early
fix_returns_on_dry_run_never(p) == FALSE

\* `if args.dry_run:` of fix_schedule_csv.main
fix_returns_on_dry_run(p) == p.dry_run

\* what shutil.copy2 writes to the backup path, variant that saves the
\* repaired rows instead of the file
backup_copy_of_repaired(files, p) == WriteCsv(files.schedule.header, p.rows)

\* what shutil.copy2(schedule_path, backup_path) writes to the backup path
backup_copy(files, p) == files.schedule

\* the existence test, the read, repair_rows and the dry-run report
FixRepair ==
    /\ proc.tool = "fix" /\ proc.pc = "start"
    /\ IF ~fs.schedule.exists
       THEN proc' = Exit(proc, 1, [text |-> "Schedule not found", n |-> 0, m |-> 0])
       ELSE IF fs.schedule.header = <<>>
       THEN proc' = Exit(proc, 1, [text |-> "Schedule is missing a header row.", n |-> 0, m |-> 0])
       ELSE \E r \in {repair_rows(fs.schedule.rows)} :
            \E p \in {[proc EXCEPT !.fieldnames = fs.schedule.header,
                                   !.rows = r.rows, !.realigned = r.realigned,
                                   !.hours_backfilled = r.hours_backfilled]} :
                IF fix_returns_on_dry_run(proc)
                THEN proc' = Exit(p, 0, [text |-> "[dry-run] Rows to realign, rows needing hours backfill",
                                           n |-> r.realigned, m |-> r.hours_backfilled])
                ELSE proc' = [p EXCEPT !.pc = IF p.no_backup THEN "write" ELSE "backup"]
    /\ UNCHANGED <<fs, started, nprocs, firstBackup, repairVars, designVars, driverVars, execVars>>

\* shutil.copy2(schedule_path, schedule_path + ".bak")
FixBackup ==
    /\ proc.tool = "fix" /\ proc.pc = "backup"
    /\ fs' = [fs EXCEPT !.bak = backup_copy(fs, proc)]
    /\ firstBackup' = IF firstBackup.exists THEN firstBackup ELSE fs.schedule
    /\ proc' = [proc EXCEPT !.pc = "write"]
    /\ UNCHANGED <<started, nprocs, repairVars, designVars, driverVars, execVars>>

\* write_rows: path.open("w") truncates the schedule
FixOpen ==
    /\ proc.tool = "fix" /\ proc.pc = "write"
    /\ fs' = [fs EXCEPT !.schedule = TruncatedFile]
    /\ proc' = [proc EXCEPT !.pc = "writing"]
    /\ UNCHANGED <<started, nprocs, firstBackup, repairVars, designVars, driverVars, execVars>>

\* write_rows: header and rows are written and the file closed; the report
FixWrite ==
    /\ proc.tool = "fix" /\ proc.pc = "writing"
    /\ fs' = [fs EXCEPT !.schedule = WriteCsv(proc.fieldnames, proc.rows)]
    /\ proc' = Exit(proc, 0, [text |-> "Repaired schedule: rows realigned, hours fields backfilled",
                               n |-> proc.realigned, m |-> proc.hours_backfilled])
    /\ UNCHANGED <<started, nprocs, firstBackup, repairVars, designVars, driverVars, execVars>>

(* recompute_qphh.recompute *)

\* `if dry_run:` of recompute, variant that always rewrites the schedule
recompute_skips_write_never(p) == FALSE

\* `if dry_run:` of recompute
recompute_skips_write(p) == p.dry_run

\* the value recompute returns after the loop, variant that does not tell a
\* partial failure from a total one
recompute_status_one_on_any_failure(p) ==
    IF p.failures = <<>> THEN 0 ELSE 1

\* the value recompute returns after the loop
recompute_status(p) ==
    IF p.failures = <<>> THEN 0 ELSE IF p.successes = 0 THEN 1 ELSE 2

\* the two existence tests, the read and the test for an empty schedule
RecomputeRead ==
    /\ proc.tool = "recompute" /\ proc.pc = "start"
    /\ IF ~fs.schedule.exists
       THEN proc' = Exit(proc, 1, [text |-> "Schedule not found", n |-> 0, m |-> 0])
       ELSE IF ~fs.results.exists
       THEN proc' = Exit(proc, 1, [text |-> "Results directory not found", n |-> 0, m |-> 0])
       ELSE IF fs.schedule.rows = <<>>
       THEN proc' = Exit(proc, 0, [text |-> "No rows found in schedule; nothing to do.",
                                    n |-> 0, m |-> 0])
       ELSE proc' = [proc EXCEPT !.fieldnames = fs.schedule.header,
                                 !.rows = fs.schedule.rows, !.i = 1, !.pc = "loop"]
    /\ UNCHANGED <<fs, started, nprocs, firstBackup, repairVars, designVars, driverVars, execVars>>

\* one turn of `for row in rows:`; an exception compute_metrics lets through
\* ends the process with a traceback
RecomputeRow ==
    /\ proc.tool = "recompute" /\ proc.pc = "loop"
    /\ \E r \in {recompute_row(proc.rows[proc.i], fs.results)} :
           IF r.raised
           THEN proc' = Exit([proc EXCEPT !.rows[proc.i] = r.row], 1,
                             [text |-> "Traceback", n |-> 0, m |-> 0])
           ELSE proc' = [proc EXCEPT
                            !.rows[proc.i] = r.row,
                            !.successes = proc.successes + (IF r.success THEN 1 ELSE 0),
                            !.failures = proc.failures \o r.failure,
                            !.i = proc.i + 1,
                            !.pc = IF proc.i = Len(proc.rows) THEN "after_loop" ELSE "loop"]
    /\ UNCHANGED <<fs, started, nprocs, firstBackup, repairVars, designVars, driverVars, execVars>>

\* temp_path.open("w"), variant that opens the schedule itself for writing
open_temp_in_place(files) == [files EXCEPT !.schedule = TruncatedFile]

\* temp_path.open("w"): schedule + ".tmp" is created empty
open_temp(files) == [files EXCEPT !.tmp = TruncatedFile]

\* after the loop: the dry-run report and return, or temp_path.open("w")
RecomputeOpenTemp ==
    /\ proc.tool = "recompute" /\ proc.pc = "after_loop"
    /\ IF recompute_skips_write(proc)
       THEN /\ proc' = Exit(proc, recompute_status(proc),
                            [text |-> "[dry-run] Would update runs with recalculated metrics.",
                             n |-> proc.successes, m |-> Len(proc.failures)])
            /\ UNCHANGED fs
       ELSE /\ fs' = open_temp(fs)
            /\ proc' = [proc EXCEPT !.pc = "temp_open"]
    /\ UNCHANGED <<started, nprocs, firstBackup, repairVars, designVars, driverVars, execVars>>

\* writer.writeheader(); writer.writerows(rows); the temporary file is closed
RecomputeWriteTemp ==
    /\ proc.tool = "recompute" /\ proc.pc = "temp_open"
    /\ fs' = [fs EXCEPT !.tmp = WriteCsv(proc.fieldnames, proc.rows)]
    /\ proc' = [proc EXCEPT !.pc = "temp_written"]
    /\ UNCHANGED <<started, nprocs, firstBackup, repairVars, designVars, driverVars, execVars>>

\* temp_path.replace(schedule_path), the report and the return value
RecomputeReplace ==
    /\ proc.tool = "recompute" /\ proc.pc = "temp_written"
    /\ fs' = [fs EXCEPT !.schedule = fs.tmp, !.tmp = NoFile]
    /\ proc' = Exit(proc, recompute_status(proc),
                    [text |-> "Updated schedule with recalculated metrics for runs.",
                     n |-> proc.successes, m |-> Len(proc.failures)])
    /\ UNCHANGED <<started, nprocs, firstBackup, repairVars, designVars, driverVars, execVars>>

\* the running process is killed, or an I/O call of it fails, at the step it
\* is at
Crash ==
    /\ proc.pc \notin {"idle", "done"}
    /\ proc' = Exit(proc, 137, [text |-> "Killed", n |-> 0, m |-> 0])
    /\ UNCHANGED <<fs, started, nprocs, firstBackup, repairVars, designVars, driverVars, execVars>>

ToolsNext ==
    \/ StartProcess
    \/ Crash
    \/ FixRepair \/ FixBackup \/ FixOpen \/ FixWrite
    \/ RecomputeRead \/ RecomputeRow \/ RecomputeOpenTemp \/ RecomputeWriteTemp
    \/ RecomputeReplace

SpecTools == ToolsInit /\ [][ToolsNext]_vars

-----------------------------------------------------------------------------
(* Dry runs and backups *)

DryRunReport ==
    {"[dry-run] Rows to realign, rows needing hours backfill",
     "[dry-run] Would update runs with recalculated metrics."}

\* the process was stopped from outside, or by a failing I/O call
Killed == proc.printed # <<>> /\ proc.printed[Len(proc.printed)].text = "Killed"

\* the process went through its row processing: it did not stop on a missing
\* input, an empty schedule or a traceback
Processed ==
    /\ proc.pc = "done"
    /\ proc.printed # <<>>
    /\ proc.printed[Len(proc.printed)].text \in
          DryRunReport \cup {"Repaired schedule: rows realigned, hours fields backfilled",
                             "Updated schedule with recalculated metrics for runs."}

\* C9: in a dry-run process of the repair tool or of the recompute driver no
\* file changes at any point: the schedule file, the backup path, the
\* temporary path and the results directory are as they were when the process
\* started; and a dry-run process that reads a schedule with rows ends with
\* the report over all of them: the repair tool prints the counts repair_rows
\* gives for the file's rows, the recompute driver has gone through every row
\* and counted it as a success or a failure.
C9_DryRunMutatesNothing ==
    proc.dry_run =>
        /\ fs = started
        /\ (proc.tool = "fix" /\ proc.pc = "done" /\ ~Killed /\ started.schedule.header # <<>>) =>
              /\ proc.exit = 0
              /\ proc.printed =
                    <<[text |-> "[dry-run] Rows to realign, rows needing hours backfill",
                       n |-> repair_rows(started.schedule.rows).realigned,
                       m |-> repair_rows(started.schedule.rows).hours_backfilled]>>
        /\ (proc.tool = "recompute" /\ Processed) =>
              /\ proc.printed[1].text \in DryRunReport
              /\ proc.i = Len(started.schedule.rows) + 1
              /\ proc.successes + Len(proc.failures) = Len(started.schedule.rows)

\* a dry-run recompute over a schedule it would have rewritten: a row was
\* normalised or given new results, one run succeeded and one failed
C9_Witness ==
    /\ proc.tool = "recompute" /\ proc.dry_run /\ Processed
    /\ proc.successes >= 1 /\ proc.failures # <<>>
    /\ WriteCsv(proc.fieldnames, proc.rows) # started.schedule
    /\ fs.schedule = started.schedule /\ ~fs.tmp.exists /\ ~fs.bak.exists

\* a repair process that makes a backup and writes
BackedUpRun == proc.tool = "fix" /\ ~proc.dry_run /\ ~proc.no_backup

\* C10 as stated: a later repair run does not replace the backup of an earlier
\* one, so once a backup has been made the backup of the first backed-up run
\* is still there.
C10_FirstBackupKept ==
    firstBackup.exists => fs.bak = firstBackup

\* C10: in a repair process without --dry-run and without --no-backup, once
\* the process is past its backup step the one backup path, schedule + ".bak",
\* holds the schedule file as it was when the process started, and the
\* schedule file is not touched before that step; a later such process writes
\* its backup over the earlier one.
C10_BackupBeforeOverwrite ==
    BackedUpRun =>
        /\ (proc.pc \in {"write", "writing"} \/ Processed) => fs.bak = started.schedule
        /\ fs.schedule # started.schedule => fs.bak = started.schedule
        /\ proc.pc \in {"start", "backup"} => fs.bak = started.bak

\* the second backed-up repair has finished, and its backup has replaced the
\* different backup the first one made
C10_Witness ==
    /\ BackedUpRun /\ Processed /\ nprocs = 2
    /\ firstBackup.exists /\ fs.bak # firstBackup
    /\ fs.bak = started.schedule

-----------------------------------------------------------------------------
(* The recompute loop and the two rewrites *)

\* the recompute process has read the schedule and is in or past its loop
InRecomputeLoop == proc.tool = "recompute" /\ proc.i >= 1

NormalizedFields ==
    {"status", "actual_runtime_sec", "execution_timestamp"} \cup ResultFields

\* C16: for every row of the schedule the recompute driver has read,
\* normalize_row leaves status, actual_runtime_sec, execution_timestamp,
\* qphh_result, power_result and throughput_result as realign_row does, and
\* leaves an aligned row as it is.
C16_NormalizeIsRealign ==
    InRecomputeLoop =>
        \A j \in 1..Len(started.schedule.rows) :
            /\ \A f \in NormalizedFields :
                  normalize_row(started.schedule.rows[j])[f]
                      = realign_row(started.schedule.rows[j])[f]
            /\ ~realign_applies(started.schedule.rows[j]) =>
                  normalize_row(started.schedule.rows[j]) = started.schedule.rows[j]

\* what the recompute process writes once its loop is over
RecomputedFile == WriteCsv(started.schedule.header, proc.rows)

\* C19: at every point of a recompute process, also after it was stopped at
\* any step, the schedule file is the complete file it was when the process
\* started or the complete new file: the original header, in its order, and
\* every row as the finished loop left it.
C19_RecomputeRewriteCrashSafe ==
    proc.tool = "recompute" =>
        \/ fs.schedule = started.schedule
        \/ /\ proc.i = Len(started.schedule.rows) + 1
           /\ fs.schedule = RecomputedFile

\* a recompute process was stopped while its temporary file was open and
\* empty; the schedule, with its notes-first header, and a changed row
\* pending, is still whole
C19_Witness ==
    /\ proc.tool = "recompute" /\ ~proc.dry_run /\ Killed
    /\ fs.tmp = TruncatedFile
    /\ started.schedule.header = NotesFirstColumns
    /\ RecomputedFile # started.schedule
    /\ fs.schedule = started.schedule

\* C20: after a repair process was stopped at any step, the schedule file is
\* the complete file it was when the process started or the complete
\* repaired file.
C20_RepairRewriteCrashSafe ==
    (proc.tool = "fix" /\ Killed) =>
        \/ fs.schedule = started.schedule
        \/ fs.schedule = WriteCsv(started.schedule.header,
                                  repair_rows(started.schedule.rows).rows)

-----------------------------------------------------------------------------
(* export_clean_results.py *)

FZero(neg) == [kind |-> "num", neg |-> neg, num |-> 0, den |-> 1]

\* x * y for floats, with the IEEE rules for inf and nan
FloatMul(x, y) ==
    IF x.kind = "nan" \/ y.kind = "nan" THEN FNan
    ELSE IF x.kind = "surd" \/ y.kind = "surd" THEN FSurd
    ELSE IF x.kind = "inf" \/ y.kind = "inf"
    THEN (IF (x.kind = "num" /\ x.num = 0) \/ (y.kind = "num" /\ y.num = 0)
          THEN FNan ELSE FInf(x.neg # y.neg))
    ELSE FracMul(x, y)

\* x / y for floats, y not zero
FloatDiv(x, y) ==
    IF x.kind = "nan" \/ y.kind = "nan" THEN FNan
    ELSE IF x.kind = "surd" \/ y.kind = "surd" THEN FSurd
    ELSE IF x.kind = "inf" THEN (IF y.kind = "inf" THEN FNan ELSE FInf(x.neg # y.neg))
    ELSE IF y.kind = "inf" THEN FZero(x.neg # y.neg)
    ELSE FracMul(x, Frac(y.neg, y.den, y.num))

\* bool(x) of an Optional[float]: None and 0.0 are false
FloatTruthy(x) == x.kind # "bad" /\ ~(x.kind = "num" /\ x.num = 0)

\* to_float: the float, or None (kind "bad")
to_float(value) ==
    IF value = NONE THEN NotANumber
    ELSE With(StrStrip(value), LAMBDA text :
         IF text = EMPTY THEN NotANumber ELSE ParseFloat(text))

\* format_number(value): "" for None, else two decimals
format_number(value) == IF value.kind = "bad" THEN EMPTY ELSE format_metric(value)

\* the predicate of calculate_power_metric:
\* r.get("test_type", "").upper() == "POWER" and r.get("stream_id") == "0"
RECURSIVE export_power_rows(_)
export_power_rows(file_rows) ==
    IF file_rows = <<>> THEN <<>>
    ELSE (IF /\ StrUpper(Head(file_rows).test_type) = Str_POWER
             /\ Head(file_rows).stream_id = Str_0
          THEN <<Head(file_rows)>> ELSE <<>>)
            \o export_power_rows(Tail(file_rows))

\* export's collect_times on the rows the predicate keeps: the groups whose
\* execution_time_seconds is a float that is true and > 0
RECURSIVE export_times(_)
export_times(groups) ==
    IF groups = <<>> THEN <<>>
    ELSE With(to_float(Head(groups).execution_time_seconds), LAMBDA exec_time :
         (IF FloatTruthy(exec_time) /\ exec_time.kind # "nan" /\ ~NonPositive(exec_time)
          THEN <<[count |-> Head(groups).count, time |-> exec_time]>>
          ELSE <<>>)
            \o export_times(Tail(groups)))

\* calculate_power_metric: the float, or None (kind "bad")
calculate_power_metric(complete_csv, refresh_csv, scale_factor) ==
    With(export_times(export_power_rows(complete_csv.rows)), LAMBDA power_times :
    With(export_times(export_power_rows(refresh_csv.rows)), LAMBDA refresh_times :
    IF TotalCount(power_times) # 22 \/ TotalCount(refresh_times) # 2 THEN NotANumber
    ELSE power_of(power_times \o refresh_times, scale_factor)))

\* next((r for r in reader if r.get("test_type", "").upper() == "THROUGHPUT"), None)
RECURSIVE export_throughput_row(_)
export_throughput_row(file_rows) ==
    IF file_rows = <<>> THEN <<>>
    ELSE IF StrUpper(Head(file_rows).test_type) = Str_THROUGHPUT
    THEN <<Head(file_rows)>>
    ELSE export_throughput_row(Tail(file_rows))

\* calculate_throughput_metric, variant without the final `* scale_factor`
calculate_throughput_metric_unscaled(interval_csv, scale_factor) ==
    With(export_throughput_row(interval_csv.rows), LAMBDA row :
    IF row = <<>> THEN NotANumber ELSE
    With(to_float(row[1].measurement_interval_seconds), LAMBDA measurement :
    With(to_float(row[1].stream_count), LAMBDA stream_count :
    IF \/ ~FloatTruthy(measurement) \/ NonPositive(measurement)
       \/ ~FloatTruthy(stream_count) \/ NonPositive(stream_count)
    THEN NotANumber
    ELSE FloatDiv(FloatMul(stream_count, Frac(FALSE, 22 * 3600, 1)), measurement))))

\* calculate_throughput_metric: the float, or None (kind "bad")
calculate_throughput_metric(interval_csv, scale_factor) ==
    With(export_throughput_row(interval_csv.rows), LAMBDA row :
    IF row = <<>> THEN NotANumber ELSE
    With(to_float(row[1].measurement_interval_seconds), LAMBDA measurement :
    With(to_float(row[1].stream_count), LAMBDA stream_count :
    IF \/ ~FloatTruthy(measurement) \/ NonPositive(measurement)
       \/ ~FloatTruthy(stream_count) \/ NonPositive(stream_count)
    THEN NotANumber
    ELSE FloatMul(FloatDiv(FloatMul(stream_count, Frac(FALSE, 22 * 3600, 1)), measurement),
                  scale_factor))))

\* calculate_metrics: (power, throughput), each a float or None
calculate_metrics(files, scale_factor) ==
    IF ~(files.complete.exists /\ files.refresh.exists /\ files.interval.exists)
    THEN [power |-> NotANumber, throughput |-> NotANumber]
    ELSE [power |-> calculate_power_metric(files.complete, files.refresh, scale_factor),
          throughput |-> calculate_throughput_metric(files.interval, scale_factor)]

\* int(float(text)): raises for None, for text that is no float, for nan and
\* for inf
int_float_raises(text) == text = NONE \/ ParseFloat(text).kind # "num"

\* `x or y` for an Optional[float] x
FloatOr(x, y) == IF FloatTruthy(x) THEN x ELSE y

Raised(exception) == [outcome |-> "raise", exception |-> exception, row |-> <<>>]

\* the files locate_result_files finds for the run: the three files of the
\* run under results_dir, each None (absent) when the glob matches nothing
locate_result_files(results_dir, row) ==
    IF results_dir.exists /\ run_prefix(row) \in DOMAIN results_dir.files
    THEN results_dir.files[run_prefix(row)]
    ELSE [complete |-> AbsentFile, refresh |-> AbsentFile, interval |-> AbsentFile]

\* one turn of summarize_runs' loop: the row is skipped, a cleaned row is
\* appended, or an exception leaves the loop.  The cleaned row is shown
\* without its three database columns.
summarize_run(row, results_dir, include_non_completed) ==
    IF row.status = NONE THEN Raised("AttributeError") ELSE
    With(StrUpper(StrStrip(row.status)), LAMBDA status :
    IF ~include_non_completed /\ status # S_COMPLETED
    THEN [outcome |-> "skipped", exception |-> "", row |-> <<>>]
    ELSE IF int_float_raises(row.run_order) \/ int_float_raises(row.replicate)
    THEN Raised("ValueError") ELSE
    With(FloatOr(to_float(row.db_size_gb), FZero(FALSE)), LAMBDA db_size :
    With(to_float(row.power_result), LAMBDA row_power :
    With(to_float(row.throughput_result), LAMBDA row_throughput :
    With(IF row_power.kind = "bad" \/ row_throughput.kind = "bad"
         THEN calculate_metrics(locate_result_files(results_dir, row),
                                FloatOr(db_size, Frac(FALSE, 1, 1)))
         ELSE [power |-> NotANumber, throughput |-> NotANumber], LAMBDA calc :
    IF row.notes = NONE THEN Raised("AttributeError")
    ELSE [outcome |-> "cleaned", exception |-> "",
          row |-> [run_number |-> int_of(ParseFloat(row.run_order)),
                   io_method |-> row.io_method,
                   replicate |-> int_of(ParseFloat(row.replicate)),
                   status |-> status,
                   runtime_seconds |-> row.actual_runtime_sec,
                   executed_at |-> row.execution_timestamp,
                   qphh_metric |-> format_number(to_float(row.qphh_result)),
                   power_metric |-> format_number(
                        IF row_power.kind # "bad" THEN row_power ELSE calc.power),
                   throughput_metric |-> format_number(
                        IF row_throughput.kind # "bad" THEN row_throughput
                        ELSE calc.throughput),
                   notes |-> StrStrip(row.notes)]])))))

-----------------------------------------------------------------------------
(* The two batch drivers on one schedule row and the result files of its   *)
(* run: compute_metrics and recompute's loop body, calculate_metrics and   *)
(* summarize_runs' loop body.                                              *)

Str_10 == <<"1","0">>
Str_minus_1 == <<"-","1">>
Str_minus_inf == <<"-","i","n","f">>
Str_2_5 == <<"2",".","5">>

\* db_size_gb of the job's row
JobSizes == {Str_1_0, Str_10, Str_nan}

JobRow(size, hours, status, runtime, stamp, qphh, power, thr, notes) ==
    ToolRow(Str_1, size, Str_sync, Str_1, Str_35, hours, status, runtime, stamp,
            qphh, power, thr, notes)

\* a completed run with results, one without, one whose stored results are
\* not what its files give, a pending run, and a completed run on a legacy
\* line (no cumulative_time_hours value): one field short, or padded with a
\* trailing comma
JobRows ==
    UNION {
      { JobRow(size, Str_hours, S_COMPLETED, Str_runtime, Str_timestamp,
               Str_1_33, Str_0_88, Str_2_00, EMPTY),
        JobRow(size, Str_hours, S_COMPLETED, Str_runtime, Str_timestamp,
               EMPTY, EMPTY, EMPTY, EMPTY),
        JobRow(size, Str_hours, S_COMPLETED, Str_runtime, Str_timestamp,
               EMPTY, Str_2_5, EMPTY, EMPTY),
        JobRow(size, EMPTY, S_PENDING, EMPTY, EMPTY, EMPTY, EMPTY, EMPTY, EMPTY),
        JobRow(size, S_COMPLETED, Str_runtime, Str_timestamp, Str_1_33, Str_0_88,
               Str_2_00, Str_notes, NONE),
        JobRow(size, S_COMPLETED, Str_runtime, Str_timestamp, Str_1_33, Str_0_88,
               Str_2_00, EMPTY, EMPTY) } : size \in JobSizes }

\* the complete CSV: absent; 22 tagged timings; the same with padded tags;
\* 21; 23 of which one is "0"; 22 of which one is negative
CompleteFiles ==
    { AbsentFile,
      TimingFile(<<Timings(22, Str_POWER, Str_4096), Timings(44, Str_THROUGHPUT, Str_2)>>),
      TimingFile(<<Timings(22, Str_power_padded, Str_4096)>>),
      TimingFile(<<Timings(21, Str_POWER, Str_4096)>>),
      TimingFile(<<Timings(11, Str_POWER, Str_4096), Timings(1, Str_POWER, Str_0),
                   Timings(11, Str_POWER, Str_4096)>>),
      TimingFile(<<Timings(21, Str_POWER, Str_4096), Timings(1, Str_POWER, Str_minus_1)>>) }

\* the refresh CSV: absent; 2 tagged timings; 1; 3 of which one is no number
RefreshFiles ==
    { AbsentFile,
      TimingFile(<<Timings(2, Str_POWER, Str_4096)>>),
      TimingFile(<<Timings(1, Str_POWER, Str_4096)>>),
      TimingFile(<<Timings(1, Str_POWER, Str_4096), Timings(1, Str_POWER, Str_abc),
                   Timings(1, Str_POWER, Str_4096)>>) }

\* the interval CSV: absent; a good THROUGHPUT row; none; measurement "0" or
\* "abc"; stream_count "0", "abc", "-inf" or "2.5"
IntervalFiles ==
    { AbsentFile,
      TimingFile(<<Interval(Str_79200, Str_2)>>),
      TimingFile(<<[Interval(Str_79200, Str_2) EXCEPT !.test_type = Str_POWER]>>),
      TimingFile(<<Interval(Str_0, Str_2)>>),
      TimingFile(<<Interval(Str_abc, Str_2)>>),
      TimingFile(<<Interval(Str_79200, Str_0)>>),
      TimingFile(<<Interval(Str_79200, Str_abc)>>),
      TimingFile(<<Interval(Str_79200, Str_minus_inf)>>),
      TimingFile(<<Interval(Str_79200, Str_2_5)>>) }

NotCalled == <<"not called">>

DriversInit ==
    /\ job \in [row : JobRows,
                files : [complete : CompleteFiles, refresh : RefreshFiles,
                         interval : IntervalFiles],
                include_non_completed : BOOLEAN]
    /\ jpc = "start"
    /\ result = [metrics |-> NotCalled, calc |-> NotCalled,
                 recomputed |-> NotCalled, cleaned |-> NotCalled]
    /\ RepairIdle
    /\ DesignIdle
    /\ ToolsIdle
    /\ ExecIdle

\* the results directory, holding the files of the job's run
JobDir == [exists |-> TRUE, files |-> (run_prefix(job.row) :> job.files)]

\* the scale factor each driver derives from the row
recompute_scale_factor == scale_factor_of(normalize_row(job.row))
export_scale_factor ==
    FloatOr(FloatOr(to_float(job.row.db_size_gb), FZero(FALSE)), Frac(FALSE, 1, 1))

\* compute_metrics(artifacts, scale_factor) as recompute calls it
ComputeMetrics ==
    /\ jpc = "start"
    /\ recompute_scale_factor.kind # "bad"
    /\ \E m \in {compute_metrics(build_artifacts(normalize_row(job.row), JobDir),
                                 recompute_scale_factor)} :
          result' = [result EXCEPT !.metrics = m]
    /\ jpc' = "computed"
    /\ UNCHANGED <<job, repairVars, designVars, toolVars, execVars>>

\* calculate_metrics(files, db_size or 1.0) as summarize_runs calls it
CalculateMetrics ==
    /\ jpc = "computed"
    /\ \E c \in {calculate_metrics(locate_result_files(JobDir, job.row), export_scale_factor)} :
          result' = [result EXCEPT !.calc = c]
    /\ jpc' = "calculated"
    /\ UNCHANGED <<job, repairVars, designVars, toolVars, execVars>>

\* the body of recompute's loop on the row
RecomputeJob ==
    /\ jpc = "calculated"
    /\ \E r \in {recompute_row(job.row, JobDir)} :
          result' = [result EXCEPT !.recomputed = r]
    /\ jpc' = "recomputed"
    /\ UNCHANGED <<job, repairVars, designVars, toolVars, execVars>>

\* the body of summarize_runs' loop on the row
SummarizeRun ==
    /\ jpc = "recomputed"
    /\ \E c \in {summarize_run(job.row, JobDir, job.include_non_completed)} :
          result' = [result EXCEPT !.cleaned = c]
    /\ jpc' = "summarized"
    /\ UNCHANGED <<job, repairVars, designVars, toolVars, execVars>>

DriversNext == ComputeMetrics \/ CalculateMetrics \/ RecomputeJob \/ SummarizeRun

SpecDrivers == DriversInit /\ [][DriversNext]_vars

-----------------------------------------------------------------------------
(* Metrics *)

Computed == jpc \in {"computed", "calculated", "recomputed", "summarized"}
Calculated == jpc \in {"calculated", "recomputed", "summarized"}
Recomputed == jpc \in {"recomputed", "summarized"}
Summarized == jpc = "summarized"

AllPresent ==
    job.files.complete.exists /\ job.files.refresh.exists /\ job.files.interval.exists

\* the number of rows of a timing CSV tagged test_type=POWER, stream_id=0
TaggedRows(file) == TotalCount(power_stream0_rows(file.rows))

\* a text that is no number (None, not a float, nan) or a number <= 0
NonPositiveOrNonNumeric(text) ==
    \/ text = NONE
    \/ ParseFloat(text).kind \in {"bad", "nan"}
    \/ NonPositive(ParseFloat(text))

\* one of the tagged rows has a non-positive timing
NonPositiveTiming(file) ==
    \E i \in 1..Len(power_stream0_rows(file.rows)) :
        /\ ParseFloat(power_stream0_rows(file.rows)[i].execution_time_seconds).kind = "num"
        /\ NonPositive(ParseFloat(power_stream0_rows(file.rows)[i].execution_time_seconds))

\* C11: compute_metrics yields no metric whenever the complete CSV does not
\* have exactly 22 rows tagged POWER / stream 0, or the refresh CSV does not
\* have exactly 2, or one of those rows has a non-positive timing.
C11_PowerNeedsExactRows ==
    (/\ Computed /\ AllPresent
     /\ \/ TaggedRows(job.files.complete) # 22
        \/ TaggedRows(job.files.refresh) # 2
        \/ NonPositiveTiming(job.files.complete)
        \/ NonPositiveTiming(job.files.refresh))
        => result.metrics.outcome # "metrics"

\* the interval CSV has no THROUGHPUT row, or its measurement interval or
\* its stream count is non-positive or non-numeric
BadInterval ==
    \/ first_throughput_row(job.files.interval.rows) = <<>>
    \/ NonPositiveOrNonNumeric(
          first_throughput_row(job.files.interval.rows)[1].measurement_interval_seconds)
    \/ NonPositiveOrNonNumeric(
          first_throughput_row(job.files.interval.rows)[1].stream_count)

\* C12: with such an interval CSV compute_metrics returns None with a
\* reason: it neither returns metrics nor raises.
C12_BadIntervalIsReported ==
    (Computed /\ AllPresent /\ BadInterval) =>
        /\ result.metrics.outcome = "none"
        /\ result.metrics.reason # ""

\* C13: whenever compute_metrics gives metrics for the run's files,
\* calculate_metrics gives the same Power and the same Throughput for them.
C13_DriversComputeSameMetrics ==
    (Calculated /\ result.metrics.outcome = "metrics") =>
        /\ result.calc.power = result.metrics.power
        /\ result.calc.throughput = result.metrics.throughput

StrictlyPositive(x) == x.kind \in {"num", "inf"} /\ ~NonPositive(x)

\* C14: compute_metrics returns metrics only with Power and Throughput both
\* strictly positive, and then QphH is the square root of their product; the
\* recompute loop rewrites all three result fields of the row, with the
\* three formatted metrics, or none of them.
C14_CompositeAllOrNothing ==
    /\ (Computed /\ result.metrics.outcome = "metrics") =>
          /\ StrictlyPositive(result.metrics.power)
          /\ StrictlyPositive(result.metrics.throughput)
          /\ result.metrics.qphh = qphh_of(result.metrics.power, result.metrics.throughput)
    /\ Recomputed =>
          \/ /\ result.recomputed.success
             /\ result.recomputed.row.qphh_result = format_metric(result.metrics.qphh)
             /\ result.recomputed.row.power_result = format_metric(result.metrics.power)
             /\ result.recomputed.row.throughput_result = format_metric(result.metrics.throughput)
          \/ /\ ~result.recomputed.success
             /\ \A f \in ResultFields : result.recomputed.row[f] = job.row[f]

\* C17: a misaligned row whose cumulative_time_hours holds COMPLETED is
\* exported, with status COMPLETED and with runtime, timestamp and the three
\* metrics read from the fields realign_row puts them in.
C17_ExportNormalizesRows ==
    (/\ Summarized
     /\ realign_applies(job.row)
     /\ StrUpper(StrStrip(job.row.cumulative_time_hours)) = S_COMPLETED) =>
        /\ result.cleaned.outcome = "cleaned"
        /\ result.cleaned.row.status = S_COMPLETED
        /\ result.cleaned.row.runtime_seconds = realign_row(job.row).actual_runtime_sec
        /\ result.cleaned.row.executed_at = realign_row(job.row).execution_timestamp
        /\ result.cleaned.row.qphh_metric
              = format_number(to_float(realign_row(job.row).qphh_result))
        /\ result.cleaned.row.power_metric
              = format_number(to_float(realign_row(job.row).power_result))
        /\ result.cleaned.row.throughput_metric
              = format_number(to_float(realign_row(job.row).throughput_result))

\* the row holds a number in each of its three result fields
HoldsResults ==
    \A f \in ResultFields : to_float(job.row[f]).kind # "bad"

\* C18 as stated: a row that holds its three results keeps exactly those
\* values in the recompute driver's row and in the export driver's row.
C18_ExistingResultsKept ==
    HoldsResults =>
        /\ Recomputed => \A f \in ResultFields : result.recomputed.row[f] = job.row[f]
        /\ (Summarized /\ result.cleaned.outcome = "cleaned") =>
              /\ result.cleaned.row.qphh_metric = job.row.qphh_result
              /\ result.cleaned.row.power_metric = job.row.power_result
              /\ result.cleaned.row.throughput_metric = job.row.throughput_result

\* C18: the export driver shows, to two decimals, the row's power_result and
\* throughput_result where each is a number, and calculate_metrics' value for
\* the one that is not; its qphh is always the row's.  The recompute driver
\* does not look at the stored values: a run it can compute gets the three
\* computed metrics, a run it cannot keeps what it had.
C18_ExportPrefersStoredRecomputeOverwrites ==
    /\ (Summarized /\ result.cleaned.outcome = "cleaned") =>
          /\ result.cleaned.row.qphh_metric = format_number(to_float(job.row.qphh_result))
          /\ result.cleaned.row.power_metric =
                format_number(IF to_float(job.row.power_result).kind # "bad"
                              THEN to_float(job.row.power_result) ELSE result.calc.power)
          /\ result.cleaned.row.throughput_metric =
                format_number(IF to_float(job.row.throughput_result).kind # "bad"
                              THEN to_float(job.row.throughput_result)
                              ELSE result.calc.throughput)
    /\ Recomputed =>
          /\ result.recomputed.success = (result.metrics.outcome = "metrics")
          /\ result.recomputed.success =>
                /\ result.recomputed.row.qphh_result = format_metric(result.metrics.qphh)
                /\ result.recomputed.row.power_result = format_metric(result.metrics.power)
                /\ result.recomputed.row.throughput_result
                      = format_metric(result.metrics.throughput)
          /\ ~result.recomputed.success =>
                \A f \in ResultFields : result.recomputed.row[f] = job.row[f]

\* a row holding its three results: the recompute driver replaced them with
\* other values, the export driver shows the stored ones
C18_Witness ==
    /\ HoldsResults /\ Recomputed /\ Summarized
    /\ result.recomputed.success
    /\ result.recomputed.row.power_result # job.row.power_result
    /\ result.cleaned.outcome = "cleaned"
    /\ result.cleaned.row.power_metric = job.row.power_result
    /\ result.cleaned.row.throughput_metric = job.row.throughput_result

-----------------------------------------------------------------------------
(* The recompute driver's exit code and what it leaves in the file *)

\* the rows of the schedule the running process read, by what recompute's
\* loop body makes of each
SucceededRows ==
    {j \in 1..Len(started.schedule.rows) :
        recompute_row(started.schedule.rows[j], started.results).success}
FailedRows ==
    {j \in 1..Len(started.schedule.rows) :
        recompute_row(started.schedule.rows[j], started.results).failure # <<>>}
RaisingRows ==
    {j \in 1..Len(started.schedule.rows) :
        recompute_row(started.schedule.rows[j], started.results).raised}

\* the recompute process has ended by itself: recompute returned, or an
\* exception left it
RecomputeEnded == proc.tool = "recompute" /\ proc.pc = "done" /\ ~Killed

IdentityFields ==
    {"run_order", "db_size_gb", "io_method", "replicate", "cumulative_time_min"}

\* a recompute process that rewrote the schedule and reported
Rewritten == proc.tool = "recompute" /\ Processed /\ ~proc.dry_run

\* C29: after a recompute process has rewritten the schedule, the file has
\* the header it had and as many rows, each row at its place with its
\* run_order and treatment fields; every row that was correctly aligned holds
\* in every field other than qphh_result, power_result and throughput_result
\* the value it had, and an aligned row whose computation failed holds in
\* every field the value it had.
C29_RecomputeChangesOnlyResults ==
    Rewritten =>
        /\ fs.schedule.header = started.schedule.header
        /\ Len(fs.schedule.rows) = Len(started.schedule.rows)
        /\ \A j \in 1..Len(started.schedule.rows) :
              /\ \A f \in IdentityFields :
                    fs.schedule.rows[j][f] = started.schedule.rows[j][f]
              /\ IsAligned(started.schedule.rows[j]) =>
                    /\ \A f \in DOMAIN started.schedule.rows[j] \ ResultFields :
                          fs.schedule.rows[j][f] = started.schedule.rows[j][f]
                    /\ j \notin SucceededRows =>
                          fs.schedule.rows[j] = started.schedule.rows[j]

\* a rewrite after one aligned row was given new results and another
\* aligned row, with a padded status, failed
C29_Witness ==
    /\ Rewritten
    /\ \E j \in SucceededRows :
          /\ IsAligned(started.schedule.rows[j])
          /\ fs.schedule.rows[j] # started.schedule.rows[j]
    /\ \E k \in FailedRows :
          /\ IsAligned(started.schedule.rows[k])
          /\ started.schedule.rows[k].status # StrUpper(StrStrip(started.schedule.rows[k].status))

-----------------------------------------------------------------------------
(* The end-to-end scenario: a schedule of three rows, one with all its     *)
(* artifacts, one without its refresh CSV, one shifted left from status    *)
(* on and without artifacts; the two tools run on it.                      *)

\* a legacy line of a failed run, its status padded
RowLegacyFailed ==
    ToolRow(Str_2, Str_1_0, Str_iouring, Str_1, Str_70, Str_failed_padded, Str_runtime,
            Str_timestamp, EMPTY, EMPTY, EMPTY, Str_notes, NONE)

Permutations3(a, b, c) ==
    {<<a, b, c>>, <<a, c, b>>, <<b, a, c>>, <<b, c, a>>, <<c, a, b>>, <<c, b, a>>}

\* the results directory of the scenario; the shifted run's files are
\* absent, with or without files of other runs next to them
ScenarioDir(valid, norefresh, others) ==
    [exists |-> TRUE,
     files |-> [k \in {run_prefix(valid), run_prefix(norefresh)} \cup others |->
                  IF k = run_prefix(valid) THEN GoodArtifacts
                  ELSE IF k = run_prefix(norefresh)
                  THEN [GoodArtifacts EXCEPT !.refresh = AbsentFile]
                  ELSE GoodArtifacts]]

ScenarioInit ==
    /\ \E valid \in {RowCompleted, RowPending}, shifted \in {RowLegacy, RowLegacyFailed},
          others \in {{}, {run_prefix(RowNoSize)}},
          header \in {ScheduleColumns, NotesFirstColumns} :
          \E norefresh \in {RowCompleted, RowPending} \ {valid} :
          \E l \in Permutations3(valid, norefresh, shifted) :
              fs = [schedule |-> [exists |-> TRUE, header |-> header, rows |-> l],
                    bak |-> NoFile, tmp |-> NoFile,
                    results |-> ScenarioDir(valid, norefresh, others)]
    /\ proc = Idle
    /\ started = fs
    /\ nprocs = 0
    /\ firstBackup = NoFile
    /\ RepairIdle
    /\ DesignIdle
    /\ DriversIdle
    /\ ExecIdle

SpecScenario == ScenarioInit /\ [][ToolsNext]_vars

\* the artifacts recompute looks up for a row of the schedule as read
ArtifactsOf(j) ==
    build_artifacts(normalize_row(started.schedule.rows[j]), started.results)

\* the roles of the scenario, among the rows of the schedule as read
ValidRuns ==
    {j \in 1..Len(started.schedule.rows) :
        /\ IsAligned(started.schedule.rows[j])
        /\ ArtifactsOf(j) = GoodArtifacts
        /\ scale_factor_of(started.schedule.rows[j]).kind = "num"}
NoRefreshRuns ==
    {j \in 1..Len(started.schedule.rows) :
        /\ IsAligned(started.schedule.rows[j])
        /\ ArtifactsOf(j) = [GoodArtifacts EXCEPT !.refresh = AbsentFile]}
ShiftedRuns ==
    {j \in 1..Len(started.schedule.rows) :
        /\ realign_applies(started.schedule.rows[j])
        /\ ArtifactsOf(j) = NoArtifacts}

\* the schedule and the results directory the process started on are those
\* of the scenario
Scenario ==
    /\ started.schedule.exists /\ started.results.exists
    /\ Len(started.schedule.rows) = 3
    /\ Cardinality(ValidRuns) = 1
    /\ Cardinality(NoRefreshRuns) = 1
    /\ Cardinality(ShiftedRuns) = 1

\* the entry of the failure list for row j of the process
FailureOf(j) ==
    {proc.failures[k] : k \in {k \in 1..Len(proc.failures) :
        proc.failures[k].run_order = started.schedule.rows[j].run_order}}

\* C25: a recompute process over the scenario, with or without --dry-run,
\* reports 1 success and 2 failures; the run without refresh CSV fails with
\* the reason "missing refresh CSV"; the shifted row is looked up and
\* reported as normalize_row leaves it, its status a status value, and fails
\* on its first missing artifact; the process exits with 2.
C25_EndToEnd ==
    (proc.tool = "recompute" /\ Processed /\ Scenario) =>
        /\ proc.successes = 1
        /\ Len(proc.failures) = 2
        /\ \A j \in ValidRuns : FailureOf(j) = {}
        /\ \A j \in NoRefreshRuns :
              FailureOf(j) = {[run_order |-> started.schedule.rows[j].run_order,
                               reason |-> "missing refresh CSV"]}
        /\ \A j \in ShiftedRuns :
              /\ proc.rows[j] = normalize_row(started.schedule.rows[j])
              /\ StrUpper(StrStrip(proc.rows[j].status)) \in STATUS_VALUES
              /\ proc.rows[j].cumulative_time_hours = EMPTY
              /\ proc.rows[j].actual_runtime_sec = started.schedule.rows[j].status
              /\ FailureOf(j) = {[run_order |-> started.schedule.rows[j].run_order,
                                  reason |-> "missing complete CSV"]}
        /\ proc.exit = 2

\* the scenario was run and the schedule rewritten
C25_Witness ==
    /\ proc.tool = "recompute" /\ Processed /\ Scenario /\ ~proc.dry_run
    /\ proc.successes = 1 /\ Len(proc.failures) = 2 /\ proc.exit = 2
    /\ fs.schedule # started.schedule

-----------------------------------------------------------------------------
(* Missing artifacts, checked under SpecDrivers *)

ArtifactKinds == {"complete", "refresh", "interval"}

MissingReasons == {"missing complete CSV", "missing refresh CSV", "missing interval CSV"}

\* the reason for the first absent file of the run, in the order complete,
\* refresh, interval
FirstMissing ==
    IF ~job.files.complete.exists THEN "missing complete CSV"
    ELSE IF ~job.files.refresh.exists THEN "missing refresh CSV"
    ELSE "missing interval CSV"

MissingDir == [exists |-> FALSE, files |-> <<>>]

\* C24: for every subset of the three artifacts present in the results
\* directory, build_artifacts and locate_result_files give for each file
\* whether it is there, also for a results directory that does not exist;
\* when a file is absent compute_metrics raises nothing and returns no
\* metrics with the reason of the first absent file in the order complete,
\* refresh, interval, and calculate_metrics returns no value; when all three
\* are there no such reason is given.
C24_MissingArtifactReported ==
    Computed =>
        /\ \A k \in ArtifactKinds :
              /\ build_artifacts(normalize_row(job.row), JobDir)[k].exists
                    = job.files[k].exists
              /\ locate_result_files(JobDir, job.row)[k].exists = job.files[k].exists
              /\ ~locate_result_files(MissingDir, job.row)[k].exists
              /\ ~build_artifacts(normalize_row(job.row),
                                  [exists |-> TRUE, files |-> <<>>])[k].exists
        /\ ~AllPresent =>
              /\ result.metrics.outcome = "none"
              /\ result.metrics.reason = FirstMissing
        /\ AllPresent => result.metrics.reason \notin MissingReasons
        /\ (Calculated /\ ~AllPresent) =>
              result.calc = [power |-> NotANumber, throughput |-> NotANumber]

\* the complete CSV is there, the refresh and the interval CSV are not, and
\* the refresh CSV is the one named
C24_Witness ==
    /\ Computed
    /\ job.files.complete.exists /\ ~job.files.refresh.exists /\ ~job.files.interval.exists
    /\ result.metrics.outcome = "none"
    /\ result.metrics.reason = "missing refresh CSV"

-----------------------------------------------------------------------------
(* Blocks of the schedule, checked under SpecDesign *)

\* the database sizes of the rows 1..i of the schedule
SizesUpTo(i) == {schedule[j].db_size_gb : j \in 1..i}

\* C27: in every RCBD schedule the rows of one database size are contiguous
\* in run_order, there is one block_id per distinct size, and the block_id
\* of a row is "Block<k>_<size label>" with k the 1-based position of the
\* row's block in the run order, so that k never decreases along the
\* schedule; in every CRD schedule block_id is "NA" in all rows.
C27_BlocksContiguous ==
    Scheduled =>
        IF args.design = "CRD"
        THEN \A i \in 1..Len(schedule) : schedule[i].block_id = <<"NA">>
        ELSE /\ \A i, j \in 1..Len(schedule) :
                   (i < j /\ schedule[i].db_size_gb = schedule[j].db_size_gb) =>
                       \A k \in i..j : schedule[k].db_size_gb = schedule[i].db_size_gb
             /\ Cardinality({schedule[i].block_id : i \in 1..Len(schedule)})
                   = Cardinality(SizesUpTo(Len(schedule)))
             /\ \A i \in 1..Len(schedule) :
                   /\ schedule[i].block_id =
                         <<"Block", Cardinality(SizesUpTo(i)), "_",
                           format_db_label(schedule[i].db_size_gb)>>
                   /\ schedule[i].run_order = i
             /\ \A i, j \in 1..Len(schedule) :
                   i < j => schedule[i].block_id[2] <= schedule[j].block_id[2]

\* an RCBD schedule of two blocks of at least two rows, the larger size
\* drawn as the first block
C27_Witness ==
    /\ gpc = "done" /\ args.design = "RCBD"
    /\ Len(schedule) >= 4
    /\ schedule[1].db_size_gb > schedule[Len(schedule)].db_size_gb
    /\ schedule[1].block_id[2] = 1 /\ schedule[2].block_id[2] = 1
    /\ schedule[Len(schedule)].block_id[2] = 2

-----------------------------------------------------------------------------
(* The hours backfill, checked under SpecRepair *)

\* cumulative_time_min of the row parses as a float
ParseableMinutes(row) == parse_minutes(row.cumulative_time_min).kind # "bad"

\* the row is realigned, or holds no hours: fill_hours finds the hours empty
NeedsHours(row) == realign_applies(row) \/ ~Truthy(row.cumulative_time_hours)

\* cumulative_time_min / 60 with two decimals
HoursOf(row) == FormatFloat2(DivBy(parse_minutes(row.cumulative_time_min), 60))

\* the hours of a row after repair_rows, for the rows with parseable minutes
\* and the rows that had hours
BackfillOfParseable(r0, r) ==
    /\ ParseableMinutes(r0) => Truthy(r.cumulative_time_hours)
    /\ (ParseableMinutes(r0) /\ NeedsHours(r0)) => r.cumulative_time_hours = HoursOf(r0)
    /\ ~NeedsHours(r0) => r.cumulative_time_hours = r0.cumulative_time_hours

\* the rows counted as backfilled are the rows with parseable minutes that
\* were realigned or arrived without hours
BackfillCount ==
    passes[1].hours_backfilled =
        Cardinality({i \in 1..Len(rows0) : ParseableMinutes(rows0[i]) /\ NeedsHours(rows0[i])})

\* C28: after repair_rows every row with parseable minutes has hours; a row
\* that was realigned or arrived without hours holds minutes / 60 with two
\* decimals, a row that had hours (and was not realigned) keeps them; and a
\* row with empty or unparseable minutes is left by the backfill with the
\* hours it found: the hours the row arrived with when it was aligned, empty
\* hours when it was realigned (its hours column held the status); it is not
\* counted as backfilled.
C28_BackfillFromMinutes ==
    Len(passes) >= 1 =>
        /\ \A i \in 1..Len(rows0) :
              /\ BackfillOfParseable(rows0[i], passes[1].rows[i])
              /\ ~ParseableMinutes(rows0[i]) =>
                    passes[1].rows[i].cumulative_time_hours =
                        IF realign_applies(rows0[i]) THEN EMPTY
                        ELSE rows0[i].cumulative_time_hours
        /\ BackfillCount

\* repair_rows has returned on a list with a realigned row whose minutes do
\* not parse, left without hours, and a row without hours whose minutes
\* " 7.5" gave "0.12"
C28_Witness ==
    /\ Len(passes) >= 1 /\ Len(rows0) = 2
    /\ realign_applies(rows0[1]) /\ rows0[1].cumulative_time_min = Str_abc
    /\ passes[1].rows[1].cumulative_time_hours = EMPTY
    /\ rows0[2].cumulative_time_min = Str_7_5 /\ rows0[2].cumulative_time_hours = EMPTY
    /\ passes[1].rows[2].cumulative_time_hours = <<"0", ".", "1", "2">>
    /\ passes[1].hours_backfilled = 1

-----------------------------------------------------------------------------
(* export_clean_results.main on a schedule file: summarize_runs over all   *)
(* its rows, then write_clean_csv.  The process is [pc, include_non_-      *)
(* completed, rows, i, cleaned, exit, printed]; the output path holds a    *)
(* CSV file or nothing.                                                    *)

\* completed runs whose run_order is no number and whose replicate is empty
RowBadOrder ==
    ToolRow(Str_abc, Str_1_0, Str_sync, Str_1, Str_35, Str_hours, S_COMPLETED,
            Str_runtime, Str_timestamp, Str_1_33, Str_0_88, Str_2_00, EMPTY)
RowNoReplicate ==
    ToolRow(Str_2, Str_1_0, Str_sync, EMPTY, Str_35, Str_hours, S_COMPLETED,
            Str_runtime, Str_timestamp, Str_1_33, Str_0_88, Str_2_00, EMPTY)
\* a completed run whose db_size_gb is no number
RowBadSize ==
    ToolRow(Str_3, Str_abc, Str_sync, Str_1, Str_35, Str_hours, S_COMPLETED,
            Str_runtime, Str_timestamp, Str_1_33, Str_0_88, Str_2_00, EMPTY)

ExportRows ==
    ScheduleRows \cup {RowBadOrder, RowNoReplicate, RowBadSize}

\* the header write_clean_csv writes
CleanColumns ==
    <<"run_number", "io_method", "replicate", "database_size_gb", "database_size_label",
      "database_name", "status", "runtime_seconds", "executed_at", "qphh_metric",
      "power_metric", "throughput_metric", "notes">>

\* an output file left by an earlier export
StaleOutput == [exists |-> TRUE, header |-> CleanColumns, rows |-> <<>>]

ExportInit ==
    /\ \E s \in {NoFile, TruncatedFile}
                    \cup {[exists |-> TRUE, header |-> ScheduleColumns, rows |-> l] :
                            l \in UNION {ListsOf(ExportRows, n) : n \in 1..MaxFileRows}},
          d \in ResultsDirs, o \in {NoFile, StaleOutput} :
          fs = [schedule |-> s, results |-> d, output |-> o]
    /\ \E flag \in BOOLEAN :
          proc = [tool |-> "export", include_non_completed |-> flag, pc |-> "start",
                  rows |-> <<>>, i |-> 0, cleaned |-> <<>>, exit |-> -1, printed |-> <<>>]
    /\ started = fs
    /\ nprocs = 1
    /\ firstBackup = NoFile
    /\ RepairIdle
    /\ DesignIdle
    /\ DriversIdle
    /\ ExecIdle

\* schedule_path.open() and the DictReader: a missing schedule raises
\* FileNotFoundError
ExportRead ==
    /\ proc.tool = "export" /\ proc.pc = "start"
    /\ IF ~fs.schedule.exists
       THEN proc' = [proc EXCEPT !.pc = "done", !.exit = 1,
                                 !.printed = <<"Traceback: FileNotFoundError">>]
       ELSE proc' = [proc EXCEPT !.rows = fs.schedule.rows, !.i = 1,
                                 !.pc = IF fs.schedule.rows = <<>> THEN "after_loop"
                                        ELSE "loop"]
    /\ UNCHANGED <<fs, started, nprocs, firstBackup, repairVars, designVars, driverVars, execVars>>

\* one turn of summarize_runs' loop; an exception leaves summarize_runs and
\* main
ExportRow ==
    /\ proc.tool = "export" /\ proc.pc = "loop"
    /\ \E r \in {summarize_run(proc.rows[proc.i], fs.results, proc.include_non_completed)} :
          IF r.outcome = "raise"
          THEN proc' = [proc EXCEPT !.pc = "done", !.exit = 1,
                                    !.printed = <<"Traceback: " \o r.exception>>]
          ELSE proc' = [proc EXCEPT
                          !.cleaned = IF r.outcome = "cleaned"
                                      THEN Append(proc.cleaned, r.row) ELSE proc.cleaned,
                          !.i = proc.i + 1,
                          !.pc = IF proc.i = Len(proc.rows) THEN "after_loop" ELSE "loop"]
    /\ UNCHANGED <<fs, started, nprocs, firstBackup, repairVars, designVars, driverVars, execVars>>

\* main after summarize_runs: nothing to export, or write_clean_csv
ExportWrite ==
    /\ proc.tool = "export" /\ proc.pc = "after_loop"
    /\ IF proc.cleaned = <<>>
       THEN /\ proc' = [proc EXCEPT
                          !.pc = "done", !.exit = 0,
                          !.printed = <<"No runs matched the selected criteria; nothing to export.">>]
            /\ UNCHANGED fs
       ELSE /\ fs' = [fs EXCEPT !.output = [exists |-> TRUE, header |-> CleanColumns,
                                            rows |-> proc.cleaned]]
            /\ proc' = [proc EXCEPT !.pc = "done", !.exit = 0,
                                    !.printed = <<"Wrote rows to output">>]
    /\ UNCHANGED <<started, nprocs, firstBackup, repairVars, designVars, driverVars, execVars>>

ExportNext == ExportRead \/ ExportRow \/ ExportWrite

SpecExport == ExportInit /\ [][ExportNext]_vars

-----------------------------------------------------------------------------
(* The export driver on a schedule, checked under SpecExport *)

\* the export process has ended: main returned, or an exception left it
ExportEnded == proc.tool = "export" /\ proc.pc = "done"

\* the row is one the export selects: every row with
\* --include-non-completed, else the rows whose status is COMPLETED
Selected(row) ==
    \/ proc.include_non_completed
    \/ row.status # NONE /\ StrUpper(StrStrip(row.status)) = S_COMPLETED

\* run_order and replicate of the row are numbers
NumbersParse(row) ==
    ~int_float_raises(row.run_order) /\ ~int_float_raises(row.replicate)

\* run_order, replicate and db_size_gb of the row are numbers
WellFormed(row) == NumbersParse(row) /\ to_float(row.db_size_gb).kind # "bad"

SelectedRows == SelectSeq(started.schedule.rows, Selected)

ExportableRows ==
    SelectSeq(started.schedule.rows, LAMBDA r : Selected(r) /\ NumbersParse(r))

\* the output file holds one row per row of rs, in that order
OutputHolds(rs) ==
    /\ fs.output.exists
    /\ fs.output.header = CleanColumns
    /\ Len(fs.output.rows) = Len(rs)
    /\ \A k \in 1..Len(rs) :
          /\ fs.output.rows[k].run_number = int_of(ParseFloat(rs[k].run_order))
          /\ fs.output.rows[k].io_method = rs[k].io_method
          /\ fs.output.rows[k].replicate = int_of(ParseFloat(rs[k].replicate))

\* C22: the export process never changes the schedule file, and when it has
\* ended on a schedule whose numeric fields are all well-formed, its output
\* file holds exactly the selected rows, one output row per schedule row and
\* in schedule order: the rows whose status, trimmed and in any case, is
\* COMPLETED, or every row with --include-non-completed.
C22_ExportHoldsSelectedRows ==
    proc.tool = "export" =>
        /\ fs.schedule = started.schedule
        /\ (/\ ExportEnded /\ started.schedule.exists
            /\ \A j \in 1..Len(started.schedule.rows) : WellFormed(started.schedule.rows[j])
            /\ SelectedRows # <<>>) =>
              OutputHolds(SelectedRows)

\* C23: on a schedule of full-length lines, a row whose run_order, replicate
\* or db_size_gb is malformed or empty does not stop the export: the process
\* ends without an exception and every other selected row is in the output.
C23_MalformedRowIsSoftFailure ==
    (/\ ExportEnded /\ started.schedule.exists
     /\ \A j \in 1..Len(started.schedule.rows) : started.schedule.rows[j].notes # NONE) =>
        /\ proc.exit = 0
        /\ ExportableRows # <<>> => OutputHolds(ExportableRows)

-----------------------------------------------------------------------------
(* Query executors (src/async_methods) and DatabaseConnection (src/database) *)

MaxQueries == 2

\* what the database does with a query: runs it, rejects the session SET
\* statement sent before it, or rejects the query itself
QueryKinds == {"ok", "set_fails", "query_fails"}
QueryLists == UNION {[1..n -> QueryKinds] : n \in 1..MaxQueries}
ExecutorKinds == {"synchronous", "io_uring", "background_workers"}
\* db_config['pool_size']
PoolSizes == {1, 2}

\* an entry of a list of execution times
Elapsed(i) == [query |-> i, time |-> "finite"]
Infinite(i) == [query |-> i, time |-> "inf"]

NewCall == [pc |-> "pending", pool |-> 0, conn |-> 0, failed |-> FALSE,
            outcome |-> "none", acquired |-> 0, returned |-> 0]

\* A fresh DatabaseConnection (both pools None) and one executor on it, driven
\* through execute_query (one call after another, or the calls of the
\* asynchronous executors gathered), through the executor's own batch method,
\* or through BenchmarkRunner._test_concurrent_queries.
ExecInit ==
    /\ \E k \in ExecutorKinds, api \in {"execute_query", "batch", "runner"},
          c \in BOOLEAN, qs \in QueryLists, n \in PoolSizes :
          /\ c => (k # "synchronous" /\ api = "execute_query")
          /\ executor = [kind |-> k, api |-> api, concurrent |-> c, queries |-> qs, pool_size |-> n]
          /\ calls = [t \in 1..Len(qs) |-> NewCall]
          /\ batch = [NoBatch EXCEPT !.i = IF api = "execute_query" THEN 0 ELSE 1,
                                     !.pc = CASE api = "execute_query" -> "off"
                                              [] api = "runner" -> "runner"
                                              [] k = "synchronous" -> "loop"
                                              [] OTHER -> "call"]
    /\ sync_pool = 0 /\ async_pool = 0 /\ pools = <<>>
    /\ RepairIdle
    /\ DesignIdle
    /\ ToolsIdle
    /\ DriversIdle

\* execute_query is entered for query t: by the caller, or by the loop of
\* execute_queries_sequential
Entered(t) ==
    /\ t \in 1..Len(calls)
    /\ calls[t].pc = "pending"
    /\ IF executor.api = "execute_query"
       THEN executor.concurrent \/ \A u \in 1..(t - 1) : calls[u].pc = "done"
       ELSE batch.pc = "loop" /\ batch.i = t

\* SynchronousExecutor.execute_query up to conn.cursor(): the pool is made on
\* first use and getconn() hands out a connection
get_sync_connection(t) ==
    /\ executor.kind = "synchronous"
    /\ Entered(t)
    /\ \E p \in {IF sync_pool = 0 THEN Len(pools) + 1 ELSE sync_pool} :
          /\ sync_pool' = p
          /\ pools' = IF sync_pool = 0 THEN Append(pools, 1) ELSE [pools EXCEPT ![p] = @ + 1]
          /\ calls' = [calls EXCEPT ![t] = [@ EXCEPT !.pc = "set", !.pool = p, !.conn = p, !.acquired = 1]]
    /\ UNCHANGED <<executor, async_pool, batch, repairVars, designVars, toolVars, driverVars>>

\* get_async_connection up to its first await: with no pool yet the call
\* goes on to make one, otherwise it asks the pool there is for a connection
get_async_connection(t) ==
    /\ executor.kind # "synchronous"
    /\ Entered(t)
    /\ calls' = [calls EXCEPT ![t] = IF async_pool = 0
                                     THEN [@ EXCEPT !.pc = "create_pool"]
                                     ELSE [@ EXCEPT !.pc = "acquire", !.pool = async_pool]]
    /\ UNCHANGED <<executor, sync_pool, async_pool, pools, batch, repairVars, designVars, toolVars, driverVars>>

\* asyncpg.create_pool() has finished: the new pool is stored in
\* self.async_pool and the call asks it for a connection
create_async_pool(t) ==
    /\ t \in 1..Len(calls)
    /\ calls[t].pc = "create_pool"
    /\ pools' = Append(pools, 0)
    /\ async_pool' = Len(pools) + 1
    /\ calls' = [calls EXCEPT ![t] = [@ EXCEPT !.pc = "acquire", !.pool = Len(pools) + 1]]
    /\ UNCHANGED <<executor, sync_pool, batch, repairVars, designVars, toolVars, driverVars>>

\* Pool.acquire() hands out a connection once the pool has one free
acquire(t) ==
    /\ t \in 1..Len(calls)
    /\ calls[t].pc = "acquire"
    /\ pools[calls[t].pool] < executor.pool_size
    /\ pools' = [pools EXCEPT ![calls[t].pool] = @ + 1]
    /\ calls' = [calls EXCEPT ![t] = [@ EXCEPT !.pc = "set", !.conn = calls[t].pool, !.acquired = 1]]
    /\ UNCHANGED <<executor, sync_pool, async_pool, batch, repairVars, designVars, toolVars, driverVars>>

\* the SET statements sent before the query
execute_query_set(t) ==
    /\ t \in 1..Len(calls)
    /\ calls[t].pc = "set"
    /\ calls' = [calls EXCEPT ![t] = IF executor.queries[t] = "set_fails"
                                     THEN [@ EXCEPT !.pc = "finally", !.failed = TRUE]
                                     ELSE [@ EXCEPT !.pc = "query"]]
    /\ UNCHANGED <<executor, sync_pool, async_pool, pools, batch, repairVars, designVars, toolVars, driverVars>>

\* the query itself
execute_query_fetch(t) ==
    /\ t \in 1..Len(calls)
    /\ calls[t].pc = "query"
    /\ calls' = [calls EXCEPT ![t] = [@ EXCEPT !.pc = "finally",
                                                !.failed = (executor.queries[t] = "query_fails")]]
    /\ UNCHANGED <<executor, sync_pool, async_pool, pools, batch, repairVars, designVars, toolVars, driverVars>>

\* finally: of SynchronousExecutor.execute_query: putconn()
return_sync_connection(t) ==
    /\ executor.kind = "synchronous"
    /\ t \in 1..Len(calls)
    /\ calls[t].pc = "finally"
    /\ pools' = [pools EXCEPT ![sync_pool] = @ - 1]
    /\ calls' = [calls EXCEPT ![t] = [@ EXCEPT !.pc = "done", !.returned = @ + 1,
                                                !.outcome = IF calls[t].failed THEN "raised" ELSE "time"]]
    /\ UNCHANGED <<executor, sync_pool, async_pool, batch, repairVars, designVars, toolVars, driverVars>>

\* finally: of the asynchronous executors' execute_query:
\* self.async_pool.release(conn) on the pool self.async_pool names now. A pool
\* takes back only its own connections and raises InterfaceError for others.
return_async_connection(t) ==
    /\ executor.kind # "synchronous"
    /\ t \in 1..Len(calls)
    /\ calls[t].pc = "finally"
    /\ IF calls[t].conn = async_pool
       THEN /\ pools' = [pools EXCEPT ![async_pool] = @ - 1]
            /\ calls' = [calls EXCEPT ![t] = [@ EXCEPT !.pc = "done", !.returned = @ + 1,
                                                        !.outcome = IF calls[t].failed THEN "raised" ELSE "time"]]
       ELSE /\ calls' = [calls EXCEPT ![t] = [@ EXCEPT !.pc = "done", !.outcome = "raised"]]
            /\ UNCHANGED pools
    /\ UNCHANGED <<executor, sync_pool, async_pool, batch, repairVars, designVars, toolVars, driverVars>>

\* SynchronousExecutor.execute_queries_sequential: one turn of the loop after
\* execute_query came back, and the return after the last turn
execute_queries_sequential ==
    /\ batch.pc = "loop"
    /\ batch.i \in 1..Len(calls)
    /\ calls[batch.i].pc = "done"
    /\ batch' = [batch EXCEPT !.query_times = Append(@, IF calls[batch.i].outcome = "time"
                                                         THEN Elapsed(batch.i) ELSE Infinite(batch.i)),
                              !.i = @ + 1,
                              !.pc = IF batch.i = Len(calls) THEN "returned" ELSE "loop"]
    /\ UNCHANGED <<executor, sync_pool, async_pool, pools, calls, repairVars, designVars, toolVars, driverVars>>

\* IOuringAsyncExecutor.execute_queries_concurrent: its first statement names
\* asyncio, which io_uring.py does not import
execute_queries_concurrent ==
    /\ executor.kind = "io_uring"
    /\ batch.pc = "call"
    /\ batch' = [batch EXCEPT !.pc = "raised", !.error = "NameError"]
    /\ UNCHANGED <<executor, sync_pool, async_pool, pools, calls, repairVars, designVars, toolVars, driverVars>>

\* BackgroundWorkersExecutor.execute_queries_parallel: the coroutines are
\* made but not started, then asyncio.gather is named without an import
execute_queries_parallel ==
    /\ executor.kind = "background_workers"
    /\ batch.pc = "call"
    /\ batch' = [batch EXCEPT !.pc = "raised", !.error = "NameError"]
    /\ UNCHANGED <<executor, sync_pool, async_pool, pools, calls, repairVars, designVars, toolVars, driverVars>>

\* BenchmarkRunner._test_concurrent_queries, the try: block's call
test_concurrent_queries ==
    /\ batch.pc = "runner"
    /\ batch' = CASE executor.kind = "synchronous" -> [batch EXCEPT !.pc = "loop"]
                  [] executor.kind = "io_uring" -> [batch EXCEPT !.pc = "call"]
                  [] OTHER -> [batch EXCEPT !.pc = "raised", !.error = "AttributeError"]
    /\ UNCHANGED <<executor, sync_pool, async_pool, pools, calls, repairVars, designVars, toolVars, driverVars>>

\* BenchmarkRunner._test_concurrent_queries, except Exception:
test_concurrent_queries_except ==
    /\ executor.api = "runner"
    /\ batch.pc = "raised"
    /\ batch' = [batch EXCEPT !.pc = "returned", !.query_times = <<>>]
    /\ UNCHANGED <<executor, sync_pool, async_pool, pools, calls, repairVars, designVars, toolVars, driverVars>>

ExecNext ==
    \/ \E t \in 1..MaxQueries : get_sync_connection(t)
    \/ \E t \in 1..MaxQueries : get_async_connection(t)
    \/ \E t \in 1..MaxQueries : create_async_pool(t)
    \/ \E t \in 1..MaxQueries : acquire(t)
    \/ \E t \in 1..MaxQueries : execute_query_set(t)
    \/ \E t \in 1..MaxQueries : execute_query_fetch(t)
    \/ \E t \in 1..MaxQueries : return_sync_connection(t)
    \/ \E t \in 1..MaxQueries : return_async_connection(t)
    \/ execute_queries_sequential
    \/ execute_queries_concurrent
    \/ execute_queries_parallel
    \/ test_concurrent_queries
    \/ test_concurrent_queries_except

SpecExecutors == ExecInit /\ [][ExecNext]_vars

BatchEnded == batch.pc \in {"returned", "raised"}
CallsEnded == \A t \in 1..Len(calls) : calls[t].pc \in {"pending", "done"}
Outstanding == {p \in 1..Len(pools) : pools[p] # 0}

\* C26: each executor's batch call returns a list as long as the list of
\* queries, whose i-th entry is the time of query i or infinity when query i
\* failed; a failing query does not stop the others.
C26_BatchReturnsOneEntryPerQuery ==
    BatchEnded =>
        /\ batch.pc = "returned"
        /\ Len(batch.query_times) = Len(executor.queries)
        /\ \A i \in 1..Len(executor.queries) :
              batch.query_times[i] = IF executor.queries[i] = "ok" THEN Elapsed(i) ELSE Infinite(i)

\* C30: every connection an execute_query call acquired has been returned to
\* its pool exactly once when the call has ended, so that no connection is
\* outstanding after the calls, run one after another or interleaved.
C30_EveryConnectionReturned ==
    /\ \A t \in 1..Len(calls) : calls[t].pc = "done" => calls[t].returned = calls[t].acquired
    /\ CallsEnded => Outstanding = {}

====
